---- MODULE Spec2Model ----
(***************************************************************************)
(* A model of enwow: the .env text parser (parser.ts), the file loader     *)
(* (loader.ts), the adapter fold (adapters/define.ts), the validator       *)
(* (validator.ts) and the Env.create orchestration (env.ts).               *)
(*                                                                         *)
(* JavaScript strings are sequences of one-character strings, so that      *)
(* trim, indexOf, slice, split and the two interpolation regexes are       *)
(* computed character by character.  Objects used as maps are functions    *)
(* whose domain is the set of own keys.                                    *)
(***************************************************************************)
EXTENDS Integers, Sequences, FiniteSets, TLC

VARIABLES
  processEnv,   \* the ambient process environment (std-env's env), read only
  p_pc,         \* EnvParser: "idle", "new", "loop", "done"
  p_contents,   \* this.contents
  p_opts,       \* this.options: ignoreProcessEnv, envSource
  p_lines,      \* lines
  p_i,          \* i, the number of lines consumed
  p_st,         \* result, currentLine, inQuotes, currentKey
  p_did,        \* what the last loop iteration did (see ParseLine)
  v_pc,         \* EnvValidator: "idle", "new", "loop", "returned", "threw"
  v_schema,     \* Object.entries(this.schema): fields in schema order
  v_env,        \* the env argument of validate()
  v_i,          \* the number of schema entries visited
  v_st,         \* result, issues
  v_calls,      \* keys whose ~standard.validate has been called, in order
  v_out,        \* what validate() returned or threw
  r_pc,         \* resolveAdapters: "idle", "new", "loop", "awaiting", "done", "threw"
  r_adapters,   \* adapters
  r_i,          \* the number of adapters whose load() has completed
  r_result,     \* result
  r_loads,      \* positions of the adapters whose load() has been called, in order
  fs,           \* the files of the directory: path -> contents
  runtime,      \* std-env's runtime: "node", "deno", "bun"
  l_pc,         \* EnvLoader.load: "idle", "new", "loop", "done", "threw"
  l_opts,       \* this.options: nodeEnv, files
  l_files,      \* files, the candidate names
  l_n,          \* the number of candidates tried
  l_results,    \* results
  l_reads,      \* paths whose read has been attempted, in order
  c_pc,         \* Env.create: "idle", "called", "resolving", "loading",
                \* "merging", "done", "failed"
  c_path,       \* whether the first argument is a URL
  c_schema,     \* schema
  c_opts,       \* opts: ignoreProcessEnv, nodeEnv, envSource, sources
  c_envValues,  \* envValues as handed to validator.validate
  c_out,        \* what create() resolved or rejected with
  j_pc,         \* fromJSON's load(): "idle", "new", "read", "done", "threw"
  j_path,       \* opts.path
  j_contents,   \* contents
  j_out,        \* what load() resolved or rejected with
  heap,         \* the objects the caller and the library hold, by reference
  o_source,     \* fromObject: the reference opts.env
  o_returned,   \* fromObject: the references returned by load(), in order
  o_did,        \* fromObject: the last operation of the caller
  e_values,     \* Env: the reference this.values
  e_alls,       \* Env: the references returned by all(), in order
  e_first,      \* Env: what the first get(k) returned, per key
  e_did,        \* Env: the last call or mutation of the caller
  k_sources,    \* concurrent calls: the adapters the calls share
  k_calls       \* concurrent calls: the locals of each call

parserVars == << p_pc, p_contents, p_opts, p_lines, p_i, p_st, p_did >>
validatorVars == << v_pc, v_schema, v_env, v_i, v_st, v_calls, v_out >>
resolveVars == << r_pc, r_adapters, r_i, r_result, r_loads >>
loaderVars == << l_pc, l_opts, l_files, l_n, l_results, l_reads >>
createVars == << c_pc, c_path, c_schema, c_opts, c_envValues, c_out >>
jsonVars == << j_pc, j_path, j_contents, j_out >>
objectVars == << o_source, o_returned, o_did >>
facadeVars == << e_values, e_alls, e_first, e_did >>
envVars == << processEnv, fs, runtime >>
concurrentVars == << k_sources, k_calls >>
vars == << envVars, parserVars, validatorVars, resolveVars, loaderVars, createVars,
           jsonVars, heap, objectVars, facadeVars, concurrentVars >>

\* ------------------------------------------------------------------------
\* Values
\* ------------------------------------------------------------------------

\* The JavaScript value undefined (never equal to a string, whose elements
\* are single characters).
UNDEF == << "<undefined>" >>

\* The empty object {}.
EmptyMap == [k \in {} |-> <<>>]

\* undefined where an object is expected (an option that is not given): kept
\* apart from every object by its one key, which no string equals.
NoMap == [k \in {UNDEF} |-> UNDEF]

\* { ...a, ...b }: own keys of both, b's value where b has the key.
OverlayKeepsEarlier(a, b) ==
  [k \in (DOMAIN a) \cup (DOMAIN b) |-> IF k \in DOMAIN a THEN a[k] ELSE b[k]]

Overlay(a, b) ==
  [k \in (DOMAIN a) \cup (DOMAIN b) |-> IF k \in DOMAIN b THEN b[k] ELSE a[k]]

\* obj[key] on a map without inherited properties of interest.
Get(obj, key) == IF key \in DOMAIN obj THEN obj[key] ELSE UNDEF

Range(s) == {s[n] : n \in DOMAIN s}

\* ------------------------------------------------------------------------
\* String primitives (0-based indices as in JavaScript)
\* ------------------------------------------------------------------------

\* Characters removed by String.prototype.trim that occur in the inputs.
WS == {" ", "\t", "\r", "\n"}

MinOf(S) == CHOOSE m \in S : \A n \in S : m <= n
MaxOf(S) == CHOOSE m \in S : \A n \in S : m >= n

\* s.indexOf(c), s.lastIndexOf(c), s.includes(c) for a one-character c.
IndexOf(s, c) ==
  LET hits == {n \in 1..Len(s) : s[n] = c}
  IN IF hits = {} THEN -1 ELSE MinOf(hits) - 1

LastIndexOf(s, c) ==
  LET hits == {n \in 1..Len(s) : s[n] = c}
  IN IF hits = {} THEN -1 ELSE MaxOf(hits) - 1

IncludesAnyQuote(s, c) == \E n \in 1..Len(s) : s[n] \in { "\"", "'" }

Includes(s, c) == \E n \in 1..Len(s) : s[n] = c

\* s.indexOf(sub) for a string sub.
IndexOfSub(s, sub) ==
  LET hits == {n \in 1..(Len(s) - Len(sub) + 1) : SubSeq(s, n, n + Len(sub) - 1) = sub}
  IN IF hits = {} THEN -1 ELSE MinOf(hits) - 1

\* s.slice(a, b) and s.slice(a) for 0 <= a.
Slice(s, a, b) == SubSeq(s, a + 1, b)
SliceFrom(s, a) == SubSeq(s, a + 1, Len(s))

\* s.trim()
Trim(s) ==
  LET keep == {n \in 1..Len(s) : s[n] \notin WS}
  IN IF keep = {} THEN <<>> ELSE SubSeq(s, MinOf(keep), MaxOf(keep))

\* contents.split(/\r?\n/)
RECURSIVE SplitLines(_)
SplitLines(s) ==
  LET nl == IndexOf(s, "\n")
  IN IF nl = -1 THEN << s >>
     ELSE LET head == Slice(s, 0, nl)
              line == IF Len(head) > 0 /\ head[Len(head)] = "\r"
                      THEN Slice(head, 0, Len(head) - 1) ELSE head
          IN << line >> \o SplitLines(SliceFrom(s, nl + 1))

\* lines.join('\n'): how the input documents are built from lines.
RECURSIVE JoinLines(_)
JoinLines(ls) ==
  IF Len(ls) = 0 THEN <<>>
  ELSE IF Len(ls) = 1 THEN ls[1]
  ELSE ls[1] \o << "\n" >> \o JoinLines(Tail(ls))

\* ------------------------------------------------------------------------
\* EnvParser (parser.ts)
\* ------------------------------------------------------------------------

Upper == {"A","B","C","D","E","F","G","H","I","J","K","L","M",
          "N","O","P","Q","R","S","T","U","V","W","X","Y","Z"}
Lower == {"a","b","c","d","e","f","g","h","i","j","k","l","m",
          "n","o","p","q","r","s","t","u","v","w","x","y","z"}
Digit == {"0","1","2","3","4","5","6","7","8","9"}

\* [A-Z_] under the i flag, and \w.
NameStart == Upper \cup Lower \cup {"_"}
WordChar == NameStart \cup Digit

\* inQuotes = null
NoQuote == "null"

\* `const result: ParsedEnv = {}` is a plain object: reading a property it does
\* not own falls through to Object.prototype.  The inherited properties that
\* the inputs name, with the string String.prototype.replace makes of them.
S_constructor == << "c", "o", "n", "s", "t", "r", "u", "c", "t", "o", "r" >>
S_proto == << "_", "_", "p", "r", "o", "t", "o", "_", "_" >>
ObjectPrototype ==
  [n \in {S_constructor, S_proto} |->
     IF n = S_constructor
     THEN << "f", "u", "n", "c", "t", "i", "o", "n", " ", "O", "b", "j", "e", "c", "t", "(", ")", " ", "{", " ", "[", "n", "a", "t", "i", "v", "e", " ", "c", "o", "d", "e", "]", " ", "}" >>
     ELSE << "[", "o", "b", "j", "e", "c", "t", " ", "O", "b", "j", "e", "c", "t", "]" >>]

\* result[key] = value on a plain object: assigning a string to __proto__
\* is ignored by the inherited setter and creates no own property.
Assign(obj, key, value) ==
  IF key = S_proto THEN obj
  ELSE [k \in (DOMAIN obj) \cup {key} |-> IF k = key THEN value ELSE obj[k]]

\* this.options.envSource ?? env
InterpolationSource(opts, penv) ==
  IF opts.envSource # NoMap THEN opts.envSource ELSE penv

\* The replacer callback shared by both regexes: parsed[varName] first, then
\* the environment source unless ignoreProcessEnv, then ''.
Replacer(varName, parsed, opts, penv) ==
  IF varName \in DOMAIN parsed THEN parsed[varName]
  ELSE IF varName \in DOMAIN ObjectPrototype THEN ObjectPrototype[varName]
  ELSE IF ~opts.ignoreProcessEnv
          /\ Get(InterpolationSource(opts, penv), varName) # UNDEF
       THEN InterpolationSource(opts, penv)[varName]
       ELSE <<>>

\* value.replace(/\$\{([^}]+)\}/g, replacer), scanning from 1-based position n.
\* Returns the new text and the replacer calls made, in order.
RECURSIVE ReplaceBraced(_, _, _, _, _)
ReplaceBraced(s, n, parsed, opts, penv) ==
  IF n > Len(s) THEN [out |-> <<>>, subs |-> <<>>]
  ELSE
    LET closers == {m \in (n + 2)..Len(s) : s[m] = "}"}
        close == IF closers = {} THEN 0 ELSE MinOf(closers)
        match == /\ s[n] = "$"
                 /\ n + 1 <= Len(s)
                 /\ s[n + 1] = "{"
                 /\ close > n + 2
    IN IF match
       THEN LET varName == SubSeq(s, n + 2, close - 1)
                text == Replacer(varName, parsed, opts, penv)
                rest == ReplaceBraced(s, close + 1, parsed, opts, penv)
            IN [out |-> text \o rest.out,
                subs |-> << [name |-> varName, text |-> text] >> \o rest.subs]
       ELSE LET rest == ReplaceBraced(s, n + 1, parsed, opts, penv)
            IN [out |-> << s[n] >> \o rest.out, subs |-> rest.subs]

\* result.replace(/(?<!\$)\$([A-Z_]\w*)/gi, replacer), scanning from position n.
RECURSIVE ReplaceBareWithoutLookbehind(_, _, _, _, _)
ReplaceBareWithoutLookbehind(s, n, parsed, opts, penv) ==
  IF n > Len(s) THEN [out |-> <<>>, subs |-> <<>>]
  ELSE
    LET match == /\ s[n] = "$"
                 /\ n + 1 <= Len(s)
                 /\ s[n + 1] \in NameStart
        stops == {m \in (n + 1)..Len(s) : s[m] \notin WordChar}
        last == IF stops = {} THEN Len(s) ELSE MinOf(stops) - 1
    IN IF match
       THEN LET varName == SubSeq(s, n + 1, last)
                text == Replacer(varName, parsed, opts, penv)
                rest == ReplaceBareWithoutLookbehind(s, last + 1, parsed, opts, penv)
            IN [out |-> text \o rest.out,
                subs |-> << [name |-> varName, text |-> text] >> \o rest.subs]
       ELSE LET rest == ReplaceBareWithoutLookbehind(s, n + 1, parsed, opts, penv)
            IN [out |-> << s[n] >> \o rest.out, subs |-> rest.subs]

RECURSIVE ReplaceBare(_, _, _, _, _)
ReplaceBare(s, n, parsed, opts, penv) ==
  IF n > Len(s) THEN [out |-> <<>>, subs |-> <<>>]
  ELSE
    LET match == /\ s[n] = "$"
                 /\ (n = 1 \/ s[n - 1] # "$")
                 /\ n + 1 <= Len(s)
                 /\ s[n + 1] \in NameStart
        stops == {m \in (n + 1)..Len(s) : s[m] \notin WordChar}
        last == IF stops = {} THEN Len(s) ELSE MinOf(stops) - 1
    IN IF match
       THEN LET varName == SubSeq(s, n + 1, last)
                text == Replacer(varName, parsed, opts, penv)
                rest == ReplaceBare(s, last + 1, parsed, opts, penv)
            IN [out |-> text \o rest.out,
                subs |-> << [name |-> varName, text |-> text] >> \o rest.subs]
       ELSE LET rest == ReplaceBare(s, n + 1, parsed, opts, penv)
            IN [out |-> << s[n] >> \o rest.out, subs |-> rest.subs]

\* interpolate(value, parsed): the ${VAR} pass, then the $VAR pass over its
\* output.
Interpolate(value, parsed, opts, penv) ==
  LET braced == ReplaceBraced(value, 1, parsed, opts, penv)
      bare == ReplaceBare(braced.out, 1, parsed, opts, penv)
  IN [out |-> bare.out, subs |-> braced.subs \o bare.subs]

\* extractQuotedValue(value, quote)
ExtractQuotedValueToFirstQuote(value, quote) ==
  LET cleanValue == SliceFrom(value, 1)
      closingIndex == IndexOf(cleanValue, quote)
  IN IF closingIndex # -1 THEN Slice(cleanValue, 0, closingIndex) ELSE cleanValue

ExtractQuotedValue(value, quote) ==
  LET cleanValue == SliceFrom(value, 1)
      closingIndex == LastIndexOf(cleanValue, quote)
  IN IF closingIndex # -1 THEN Slice(cleanValue, 0, closingIndex) ELSE cleanValue

\* The value stored for a closed quoted string: single-quoted values are
\* stored as they are, double-quoted ones are interpolated.
QuotedValueAlwaysInterpolated(cleanValue, quote, parsed, opts, penv) ==
  Interpolate(cleanValue, parsed, opts, penv)

QuotedValue(cleanValue, quote, parsed, opts, penv) ==
  IF quote = "'"
  THEN [out |-> cleanValue, subs |-> <<>>]
  ELSE Interpolate(cleanValue, parsed, opts, penv)

\* currentLine += `\n${line}`
AppendLineWithoutNewline(currentLine, line) ==
  currentLine \o line

AppendLine(currentLine, line) ==
  currentLine \o << "\n" >> \o line

\* The locals of parse() before the first line.
ParseStart == [result |-> EmptyMap, currentLine |-> <<>>,
               inQuotes |-> NoQuote, currentKey |-> <<>>]

\* One iteration of the for loop of parse() on `line`, from the locals `st`.
\* Besides the new locals (st) it reports what the iteration did: kind is
\* "single" / "double" / "unquoted" when it assigned a value of that sort,
\* "open" when it started a multi-line value, "append" when it only extended
\* one, "skip" otherwise; key and raw are the key assigned and the text the
\* value was taken from; value is the right-hand side of the assignment
\* result[key] = ...; subs are the replacer calls.
ParseLine(st, line, opts, penv) ==
  IF st.inQuotes # NoQuote
  THEN \* inside a multi-line quoted string
    LET currentLine == AppendLine(st.currentLine, line)
    IN IF Includes(line, st.inQuotes)
       THEN LET cleanValue == ExtractQuotedValue(currentLine, st.inQuotes)
                ip == QuotedValue(cleanValue, st.inQuotes, st.result, opts, penv)
            IN [st |-> [result |-> Assign(st.result, st.currentKey, ip.out),
                        currentLine |-> <<>>, inQuotes |-> NoQuote,
                        currentKey |-> <<>>],
                kind |-> IF st.inQuotes = "'" THEN "single" ELSE "double",
                key |-> st.currentKey, raw |-> currentLine, value |-> ip.out,
                subs |-> ip.subs]
       ELSE [st |-> [st EXCEPT !.currentLine = currentLine],
             kind |-> "append", key |-> st.currentKey, raw |-> currentLine,
             value |-> <<>>, subs |-> <<>>]
  ELSE
    LET trimmed == Trim(line)
        equalsIndex == IndexOf(trimmed, "=")
        skip == [st |-> st, kind |-> "skip", key |-> <<>>, raw |-> <<>>,
                 value |-> <<>>, subs |-> <<>>]
    IN IF trimmed = <<>> \/ trimmed[1] = "#" THEN skip
       ELSE IF equalsIndex = -1 THEN skip
       ELSE
         LET key == Trim(Slice(trimmed, 0, equalsIndex))
             value == SliceFrom(trimmed, equalsIndex + 1)
             quoted == value # <<>> /\ value[1] \in {"\"", "'"}
         IN IF quoted
            THEN
              LET firstChar == value[1]
                  closingQuote == LastIndexOf(value, firstChar)
              IN IF closingQuote > 0 /\ closingQuote # 0
                 THEN LET cleanValue == ExtractQuotedValue(value, firstChar)
                          ip == QuotedValue(cleanValue, firstChar, st.result, opts, penv)
                      IN [st |-> [st EXCEPT !.result = Assign(st.result, key, ip.out)],
                          kind |-> IF firstChar = "'" THEN "single" ELSE "double",
                          key |-> key, raw |-> value, value |-> ip.out,
                          subs |-> ip.subs]
                 ELSE [st |-> [st EXCEPT !.inQuotes = firstChar,
                                         !.currentLine = value,
                                         !.currentKey = key],
                       kind |-> "open", key |-> key, raw |-> value, value |-> <<>>,
                       subs |-> <<>>]
            ELSE
              LET commentIndex == IndexOfSub(value, << " ", "#" >>)
                  cut == IF commentIndex # -1 THEN Slice(value, 0, commentIndex)
                         ELSE value
                  bare == Trim(cut)
                  ip == Interpolate(bare, st.result, opts, penv)
              IN [st |-> [st EXCEPT !.result = Assign(st.result, key, ip.out)],
                  kind |-> "unquoted", key |-> key, raw |-> bare, value |-> ip.out,
                  subs |-> ip.subs]

\* The whole loop over lines[n..], as the synchronous parse() runs it.
RECURSIVE ParseFrom(_, _, _, _, _)
ParseFrom(st, lines, n, opts, penv) ==
  IF n > Len(lines) THEN st
  ELSE ParseFrom(ParseLine(st, lines[n], opts, penv).st, lines, n + 1, opts, penv)

\* new EnvParser(contents, opts).parse()
Parse(contents, opts, penv) ==
  ParseFrom(ParseStart, SplitLines(contents), 1, opts, penv).result

\* ------------------------------------------------------------------------
\* EnvParser as a state machine: construction, then parse() line by line
\* ------------------------------------------------------------------------

NoIteration ==
  [kind |-> "none", key |-> <<>>, raw |-> <<>>, value |-> <<>>, subs |-> <<>>]

ParserIdle ==
  /\ p_pc = "idle" /\ p_contents = <<>>
  /\ p_opts = [ignoreProcessEnv |-> FALSE, envSource |-> NoMap]
  /\ p_lines = <<>> /\ p_i = 0 /\ p_st = ParseStart /\ p_did = NoIteration

\* const lines = this.contents.split(/\r?\n/) and the initial locals
ParseBegin ==
  /\ p_pc = "new"
  /\ p_lines' = SplitLines(p_contents)
  /\ p_i' = 0
  /\ p_st' = ParseStart
  /\ p_did' = NoIteration
  /\ p_pc' = "loop"
  /\ UNCHANGED << envVars, concurrentVars, jsonVars, heap, objectVars, facadeVars, validatorVars, resolveVars, loaderVars, createVars, p_contents, p_opts >>

\* one iteration of for (let i = 0; i < lines.length; i++)
ParseIteration ==
  /\ p_pc = "loop"
  /\ p_i < Len(p_lines)
  /\ LET r == ParseLine(p_st, p_lines[p_i + 1], p_opts, processEnv)
     IN /\ p_st' = r.st
        /\ p_did' = [kind |-> r.kind, key |-> r.key, raw |-> r.raw,
                      value |-> r.value, subs |-> r.subs]
  /\ p_i' = p_i + 1
  /\ UNCHANGED << envVars, concurrentVars, jsonVars, heap, objectVars, facadeVars, validatorVars, resolveVars, loaderVars, createVars, p_pc, p_contents, p_opts, p_lines >>

\* return result
ParseReturn ==
  /\ p_pc = "loop"
  /\ p_i = Len(p_lines)
  /\ p_pc' = "done"
  /\ UNCHANGED << envVars, concurrentVars, jsonVars, heap, objectVars, facadeVars, validatorVars, resolveVars, loaderVars, createVars, p_contents, p_opts, p_lines, p_i, p_st, p_did >>

\* ------------------------------------------------------------------------
\* EnvValidator (validator.ts)
\* ------------------------------------------------------------------------

\* schema['~standard'].validate(value) of the schema engines the fields use.
\* A field is described by its kind:
\*   "string"    z.string(): a string passes, undefined gives one issue
\*   "optional"  z.string().optional(): everything passes unchanged
\*   "default"   z.string().default('d'): undefined becomes 'd'
\*   "reject"    a schema that rejects the value with two issues
\*   "noIssues"  a failure result whose issues array is empty
\*   "async"     a schema with an async refinement: validate returns a promise
\* The result is { value } (tag "value"), { issues } (tag "issues") or a
\* promise (tag "promise").
FieldKinds == {"string", "optional", "default", "reject", "noIssues", "async"}

StandardValidate(kind, value) ==
  CASE kind = "string" ->
         IF value = UNDEF
         THEN [tag |-> "issues", value |-> UNDEF, issues |-> << "Required" >>]
         ELSE [tag |-> "value", value |-> value, issues |-> <<>>]
    [] kind = "optional" -> [tag |-> "value", value |-> value, issues |-> <<>>]
    [] kind = "default" ->
         [tag |-> "value", value |-> IF value = UNDEF THEN << "d" >> ELSE value,
          issues |-> <<>>]
    [] kind = "reject" ->
         [tag |-> "issues", value |-> UNDEF, issues |-> << "Too short", "Invalid" >>]
    [] kind = "noIssues" -> [tag |-> "issues", value |-> UNDEF, issues |-> <<>>]
    [] kind = "async" -> [tag |-> "promise", value |-> UNDEF, issues |-> <<>>]

\* validateValue(schema, value, key): throws TypeError for a promise,
\* otherwise { success: true, value } or { success: false, issues } with
\* every issue's path set to the key.
ValidateValueUnchecked(field, value) ==
  LET result == StandardValidate(field.kind, value)
  IN IF result.tag # "issues"
     THEN [outcome |-> "success", value |-> result.value, issues |-> <<>>]
     ELSE [outcome |-> "failure", value |-> UNDEF,
           issues |-> [n \in DOMAIN result.issues |->
                         [path |-> field.key, message |-> result.issues[n]]]]

ValidateValue(field, value) ==
  LET result == StandardValidate(field.kind, value)
  IN IF result.tag = "promise"
     THEN [outcome |-> "throw", value |-> UNDEF, issues |-> <<>>]
     ELSE IF result.tag # "issues"
     THEN [outcome |-> "success", value |-> result.value, issues |-> <<>>]
     ELSE [outcome |-> "failure", value |-> UNDEF,
           issues |-> [n \in DOMAIN result.issues |->
                         [path |-> field.key, message |-> result.issues[n]]]]

\* The locals of validate() before the loop.
ValidateStart == [result |-> EmptyMap, issues |-> <<>>, threw |-> FALSE]

\* The body of for (const [key, schema] of Object.entries(this.schema)).
ValidateEntryKeepsLastIssues(st, field, env) ==
  LET validationResult == ValidateValue(field, Get(env, field.key))
  IN IF validationResult.outcome = "throw" THEN [st EXCEPT !.threw = TRUE]
     ELSE IF validationResult.outcome = "success"
     THEN [st EXCEPT !.result = Assign(st.result, field.key, validationResult.value)]
     ELSE [st EXCEPT !.issues = validationResult.issues]

ValidateEntry(st, field, env) ==
  LET validationResult == ValidateValue(field, Get(env, field.key))
  IN IF validationResult.outcome = "throw" THEN [st EXCEPT !.threw = TRUE]
     ELSE IF validationResult.outcome = "success"
     THEN [st EXCEPT !.result = Assign(st.result, field.key, validationResult.value)]
     ELSE [st EXCEPT !.issues = st.issues \o validationResult.issues]

\* What validate() does once the loop is over: throw EnvValidationError when
\* issues were collected, return result otherwise.
NoOutcome == [kind |-> "none", value |-> NoMap, issues |-> <<>>]
TypeErrorThrown == [kind |-> "TypeError", value |-> NoMap, issues |-> <<>>]

ValidateOutcome(st) ==
  IF Len(st.issues) > 0
  THEN [kind |-> "EnvValidationError", value |-> NoMap, issues |-> st.issues]
  ELSE [kind |-> "returned", value |-> st.result, issues |-> <<>>]

\* validate(env) run to its end, as the synchronous call it is.
RECURSIVE ValidateFrom(_, _, _, _)
ValidateFrom(st, schema, n, env) ==
  IF st.threw THEN TypeErrorThrown
  ELSE IF n > Len(schema) THEN ValidateOutcome(st)
  ELSE ValidateFrom(ValidateEntry(st, schema[n], env), schema, n + 1, env)

Validate(schema, env) == ValidateFrom(ValidateStart, schema, 1, env)

ValidatorIdle ==
  /\ v_pc = "idle" /\ v_schema = <<>> /\ v_env = EmptyMap /\ v_i = 0
  /\ v_st = ValidateStart /\ v_calls = <<>> /\ v_out = NoOutcome

\* const result = {}, const issues = []
ValidateBegin ==
  /\ v_pc = "new"
  /\ v_pc' = "loop"
  /\ v_i' = 0
  /\ v_st' = ValidateStart
  /\ v_calls' = <<>>
  /\ UNCHANGED << envVars, concurrentVars, jsonVars, heap, objectVars, facadeVars, parserVars, resolveVars, loaderVars, createVars, v_schema, v_env, v_out >>

\* one schema entry: validateValue, then result[key] = ... or issues.push(...)
ValidateIteration ==
  /\ v_pc = "loop"
  /\ v_i < Len(v_schema)
  /\ LET st == ValidateEntry(v_st, v_schema[v_i + 1], v_env)
     IN /\ v_st' = st
        /\ v_pc' = IF st.threw THEN "threw" ELSE "loop"
        /\ v_out' = IF st.threw THEN TypeErrorThrown ELSE v_out
  /\ v_calls' = Append(v_calls, v_schema[v_i + 1].key)
  /\ v_i' = v_i + 1
  /\ UNCHANGED << envVars, concurrentVars, jsonVars, heap, objectVars, facadeVars, parserVars, resolveVars, loaderVars, createVars, v_schema, v_env >>

\* after the loop: throw new EnvValidationError(issues) or return result
ValidateFinish ==
  /\ v_pc = "loop"
  /\ v_i = Len(v_schema)
  /\ v_out' = ValidateOutcome(v_st)
  /\ v_pc' = IF Len(v_st.issues) > 0 THEN "threw" ELSE "returned"
  /\ UNCHANGED << envVars, concurrentVars, jsonVars, heap, objectVars, facadeVars, parserVars, resolveVars, loaderVars, createVars, v_schema, v_env, v_i, v_st, v_calls >>

\* ------------------------------------------------------------------------
\* resolveAdapters (adapters/define.ts)
\* ------------------------------------------------------------------------

\* An adapter is { name, load }.  load() either resolves to a map (`values`)
\* or rejects (`fails`).
FailingAdapter(name) == [name |-> name, fails |-> TRUE, values |-> EmptyMap]
Adapter(name, values) == [name |-> name, fails |-> FALSE, values |-> values]

ResolveIdle ==
  /\ r_pc = "idle" /\ r_adapters = <<>> /\ r_i = 0
  /\ r_result = EmptyMap /\ r_loads = <<>>

\* let result = {}
ResolveBegin ==
  /\ r_pc = "new"
  /\ r_result' = EmptyMap
  /\ r_i' = 0
  /\ r_pc' = "loop"
  /\ UNCHANGED << envVars, concurrentVars, jsonVars, heap, objectVars, facadeVars, parserVars, validatorVars, loaderVars, createVars,
                  r_adapters, r_loads >>

\* adapter.load() is called for the next adapter of the list
AdapterLoad ==
  /\ r_pc = "loop"
  /\ r_i < Len(r_adapters)
  /\ r_loads' = Append(r_loads, r_i + 1)
  /\ r_pc' = "awaiting"
  /\ UNCHANGED << envVars, concurrentVars, jsonVars, heap, objectVars, facadeVars, parserVars, validatorVars, loaderVars, createVars,
                  r_adapters, r_i, r_result >>

\* const values = await adapter.load(); result = { ...result, ...values }:
\* where the function stands once the awaited load has settled, no try/catch
\* surrounding the await.
AfterLoadSwallowed(adapter, result, i) ==
  [pc |-> "loop",
   result |-> IF adapter.fails THEN result ELSE Overlay(result, adapter.values),
   i |-> i + 1]

AfterLoad(adapter, result, i) ==
  IF adapter.fails
  THEN [pc |-> "threw", result |-> result, i |-> i]
  ELSE [pc |-> "loop", result |-> Overlay(result, adapter.values), i |-> i + 1]

\* the await settles: result = { ...result, ...values }, or the rejection
\* leaves resolveAdapters
AdapterSettle ==
  /\ r_pc = "awaiting"
  /\ LET after == AfterLoad(r_adapters[r_i + 1], r_result, r_i)
     IN /\ r_pc' = after.pc
        /\ r_result' = after.result
        /\ r_i' = after.i
  /\ UNCHANGED << envVars, concurrentVars, jsonVars, heap, objectVars, facadeVars, parserVars, validatorVars, loaderVars, createVars,
                  r_adapters, r_loads >>

\* return result
ResolveReturn ==
  /\ r_pc = "loop"
  /\ r_i = Len(r_adapters)
  /\ r_pc' = "done"
  /\ UNCHANGED << envVars, concurrentVars, jsonVars, heap, objectVars, facadeVars, parserVars, validatorVars, loaderVars, createVars,
                  r_adapters, r_i, r_result, r_loads >>

\* ------------------------------------------------------------------------
\* EnvLoader (loader.ts)
\* ------------------------------------------------------------------------

S_env == << ".", "e", "n", "v" >>
S_dotLocal == << ".", "l", "o", "c", "a", "l" >>
S_test == << "t", "e", "s", "t" >>
S_testing == << "t", "e", "s", "t", "i", "n", "g" >>
K_NODE_ENV == << "N", "O", "D", "E", "_", "E", "N", "V" >>

\* options.files when the option is not given
NoList == << UNDEF >>

\* The contents of a file that exists and cannot be read.
UNREADABLE == << "<EACCES>" >>

\* this.directory, the pathname of the directory URL
Directory == << "/", "a", "p", "p", "/" >>

\* pathe's basename(f): the last non-empty segment of the path
RECURSIVE StripTrailingSlashes(_)
StripTrailingSlashes(p) ==
  IF Len(p) > 0 /\ p[Len(p)] = "/"
  THEN StripTrailingSlashes(SubSeq(p, 1, Len(p) - 1))
  ELSE p

Basename(f) ==
  LET p == StripTrailingSlashes(f)
  IN SliceFrom(p, LastIndexOf(p, "/") + 1)

\* pathe's join(this.directory, fileName)
JoinPath(directory, fileName) ==
  IF Len(directory) > 0 /\ directory[Len(directory)] = "/"
  THEN directory \o fileName
  ELSE directory \o << "/" >> \o fileName

\* getNodeEnv(): env.NODE_ENV
GetNodeEnv(penv) == Get(penv, K_NODE_ENV)

\* if (nodeEnv): neither undefined nor the empty string
Truthy(s) == s # UNDEF /\ s # <<>>

\* getFileNames(): the candidate names, highest priority first
GetFileNamesAmbientFirst(options, penv) ==
  IF options.files # NoList
  THEN [n \in DOMAIN options.files |-> Basename(options.files[n])]
  ELSE LET nodeEnv == IF GetNodeEnv(penv) # UNDEF THEN GetNodeEnv(penv)
                      ELSE options.nodeEnv
           isTest == nodeEnv = S_test \/ nodeEnv = S_testing
       IN (IF Truthy(nodeEnv) THEN << S_env \o << "." >> \o nodeEnv \o S_dotLocal >>
           ELSE <<>>)
          \o (IF ~isTest THEN << S_env \o S_dotLocal >> ELSE <<>>)
          \o (IF Truthy(nodeEnv) THEN << S_env \o << "." >> \o nodeEnv >> ELSE <<>>)
          \o << S_env >>

GetFileNamesListByMode(options, penv) ==
  LET nodeEnv == IF options.nodeEnv # UNDEF THEN options.nodeEnv
                 ELSE GetNodeEnv(penv)
      isTest == nodeEnv = S_test \/ nodeEnv = S_testing
      derived == (IF Truthy(nodeEnv) THEN << S_env \o << "." >> \o nodeEnv \o S_dotLocal >>
                  ELSE <<>>)
                 \o (IF ~isTest THEN << S_env \o S_dotLocal >> ELSE <<>>)
                 \o (IF Truthy(nodeEnv) THEN << S_env \o << "." >> \o nodeEnv >> ELSE <<>>)
                 \o << S_env >>
  IN IF options.files # NoList
     THEN SelectSeq([n \in DOMAIN options.files |-> Basename(options.files[n])],
                    LAMBDA name : ~(isTest /\ name = S_env \o S_dotLocal))
     ELSE derived

GetFileNames(options, penv) ==
  IF options.files # NoList
  THEN [n \in DOMAIN options.files |-> Basename(options.files[n])]
  ELSE LET nodeEnv == IF options.nodeEnv # UNDEF THEN options.nodeEnv
                      ELSE GetNodeEnv(penv)
           isTest == nodeEnv = S_test \/ nodeEnv = S_testing
       IN (IF Truthy(nodeEnv) THEN << S_env \o << "." >> \o nodeEnv \o S_dotLocal >>
           ELSE <<>>)
          \o (IF ~isTest THEN << S_env \o S_dotLocal >> ELSE <<>>)
          \o (IF Truthy(nodeEnv) THEN << S_env \o << "." >> \o nodeEnv >> ELSE <<>>)
          \o << S_env >>

\* readFile(path): the contents, null, or (tag "throw") a rejection.
\*   bun:  null when the file does not exist, else file.text(), which rejects
\*         when the file cannot be read
\*   deno, node: the read's result, null when it throws
ReadFile(rt, files, path) ==
  IF path \notin DOMAIN files
  THEN [tag |-> "null", contents |-> <<>>]
  ELSE IF files[path] = UNREADABLE
  THEN IF rt = "bun" THEN [tag |-> "throw", contents |-> <<>>]
       ELSE [tag |-> "null", contents |-> <<>>]
  ELSE [tag |-> "contents", contents |-> files[path]]

\* The try / catch of load()'s loop body for one candidate: the new results
\* and whether an exception leaves load().
LoadOneUncaught(results, filePath, read) ==
  IF read.tag = "throw" THEN [results |-> results, threw |-> TRUE]
  ELSE IF read.tag = "contents"
  THEN [results |-> Append(results, [path |-> filePath, contents |-> read.contents]),
        threw |-> FALSE]
  ELSE [results |-> results, threw |-> FALSE]

LoadOne(results, filePath, read) ==
  IF read.tag = "contents"
  THEN [results |-> Append(results, [path |-> filePath, contents |-> read.contents]),
        threw |-> FALSE]
  ELSE [results |-> results, threw |-> FALSE]

LoaderIdle ==
  /\ l_pc = "idle" /\ l_opts = [nodeEnv |-> UNDEF, files |-> NoList]
  /\ l_files = <<>> /\ l_n = 0 /\ l_results = <<>> /\ l_reads = <<>>

\* const files = await this.getFileNames(), const results = []
LoadBegin ==
  /\ l_pc = "new"
  /\ l_files' = GetFileNames(l_opts, processEnv)
  /\ l_results' = <<>>
  /\ l_n' = 0
  /\ l_pc' = "loop"
  /\ UNCHANGED << envVars, concurrentVars, jsonVars, heap, objectVars, facadeVars, parserVars, validatorVars, resolveVars, createVars,
                  l_opts, l_reads >>

\* one iteration of for (const fileName of files)
LoadFile ==
  /\ l_pc = "loop"
  /\ l_n < Len(l_files)
  /\ LET filePath == JoinPath(Directory, l_files[l_n + 1])
         did == LoadOne(l_results, filePath, ReadFile(runtime, fs, filePath))
     IN /\ l_reads' = Append(l_reads, filePath)
        /\ l_results' = did.results
        /\ l_pc' = IF did.threw THEN "threw" ELSE "loop"
  /\ l_n' = l_n + 1
  /\ UNCHANGED << envVars, concurrentVars, jsonVars, heap, objectVars, facadeVars, parserVars, validatorVars, resolveVars, createVars,
                  l_opts, l_files >>

\* return results
LoadReturn ==
  /\ l_pc = "loop"
  /\ l_n = Len(l_files)
  /\ l_pc' = "done"
  /\ UNCHANGED << envVars, concurrentVars, jsonVars, heap, objectVars, facadeVars, parserVars, validatorVars, resolveVars, createVars,
                  l_opts, l_files, l_n, l_results, l_reads >>

\* ------------------------------------------------------------------------
\* Env.create (env.ts)
\* ------------------------------------------------------------------------

\* opts.sources when the option is not given
NoSources == << [name |-> "<undefined>", fails |-> FALSE, values |-> NoMap] >>

\* if (path && opts.sources): an array, the empty one included, is truthy
ConflictingArgumentsNonEmpty(path, opts) ==
  path /\ opts.sources # NoSources /\ Len(opts.sources) > 0

ConflictingArguments(path, opts) ==
  path /\ opts.sources # NoSources

\* files.reverse()
ParseOrderAsLoaded(files) ==
  files

ParseOrder(files) ==
  [n \in DOMAIN files |-> files[Len(files) + 1 - n]]

\* for (const file of files.reverse()): envValues = { ...envValues, ...parsed }
\* with parsed = new EnvParser(file.contents, ...).parse(), a parser of its own
\* for every file.
RECURSIVE MergeParsedCarrying(_, _, _, _, _)
MergeParsedCarrying(envValues, files, n, opts, penv) ==
  IF n > Len(files) THEN envValues
  ELSE LET parsed == ParseFrom([ParseStart EXCEPT !.result = envValues],
                               SplitLines(files[n].contents), 1,
                               [ignoreProcessEnv |-> opts.ignoreProcessEnv,
                                envSource |-> opts.envSource], penv).result
       IN MergeParsedCarrying(Overlay(envValues, parsed), files, n + 1, opts, penv)

RECURSIVE MergeParsed(_, _, _, _, _)
MergeParsed(envValues, files, n, opts, penv) ==
  IF n > Len(files) THEN envValues
  ELSE LET parsed == Parse(files[n].contents,
                           [ignoreProcessEnv |-> opts.ignoreProcessEnv,
                            envSource |-> opts.envSource], penv)
       IN MergeParsed(Overlay(envValues, parsed), files, n + 1, opts, penv)

\* if (!opts.ignoreProcessEnv) envValues = { ...envValues, ...processEnv }
\* with processEnv = opts.envSource ?? getProcessEnv()
OverlayProcessEnvUnderneath(envValues, opts, penv) ==
  IF ~opts.ignoreProcessEnv
  THEN Overlay(IF opts.envSource # NoMap THEN opts.envSource ELSE penv, envValues)
  ELSE envValues

OverlayProcessEnv(envValues, opts, penv) ==
  IF ~opts.ignoreProcessEnv
  THEN Overlay(envValues, IF opts.envSource # NoMap THEN opts.envSource ELSE penv)
  ELSE envValues

\* envValues of the branch without sources, once the loader has returned
\* `files` (no file is loaded without a path)
EnvValuesFromFiles(path, files, opts, penv) ==
  OverlayProcessEnv(
    IF path THEN MergeParsed(EmptyMap, ParseOrder(files), 1, opts, penv)
    ELSE EmptyMap,
    opts, penv)

\* A rejection of an adapter's load() leaves create() as it is.
AdapterErrorThrown == [kind |-> "AdapterError", value |-> NoMap, issues |-> <<>>]

CreateIdle ==
  /\ c_pc = "idle" /\ c_path = FALSE /\ c_schema = <<>>
  /\ c_opts = [ignoreProcessEnv |-> FALSE, nodeEnv |-> UNDEF,
               envSource |-> NoMap, sources |-> NoSources]
  /\ c_envValues = NoMap /\ c_out = NoOutcome

\* throw new TypeError('Cannot use 'sources' option together with path ...')
CreateRejects ==
  /\ c_pc = "called"
  /\ ConflictingArguments(c_path, c_opts)
  /\ c_pc' = "failed"
  /\ c_out' = TypeErrorThrown
  /\ UNCHANGED << envVars, concurrentVars, jsonVars, heap, objectVars, facadeVars, parserVars, validatorVars, resolveVars, loaderVars,
                  c_path, c_schema, c_opts, c_envValues >>

\* envValues = await resolveAdapters(opts.sources): the call
CreateResolves ==
  /\ c_pc = "called"
  /\ ~ConflictingArguments(c_path, c_opts)
  /\ c_opts.sources # NoSources
  /\ c_pc' = "resolving"
  /\ r_pc' = "new"
  /\ r_adapters' = c_opts.sources
  /\ UNCHANGED << envVars, concurrentVars, jsonVars, heap, objectVars, facadeVars, parserVars, validatorVars, loaderVars,
                  r_i, r_result, r_loads,
                  c_path, c_schema, c_opts, c_envValues, c_out >>

\* const files = await loader.load(): the call, on
\* new EnvLoader(path, { nodeEnv: opts.nodeEnv })
CreateLoads ==
  /\ c_pc = "called"
  /\ ~ConflictingArguments(c_path, c_opts)
  /\ c_opts.sources = NoSources
  /\ c_path
  /\ c_pc' = "loading"
  /\ l_pc' = "new"
  /\ l_opts' = [nodeEnv |-> c_opts.nodeEnv, files |-> NoList]
  /\ UNCHANGED << envVars, concurrentVars, jsonVars, heap, objectVars, facadeVars, parserVars, validatorVars, resolveVars,
                  l_files, l_n, l_results, l_reads,
                  c_path, c_schema, c_opts, c_envValues, c_out >>

\* The end of create(): validator.validate(envValues), then new Env(validated)
\* or the validator's error.
Finish(envValues) ==
  /\ c_envValues' = envValues
  /\ c_out' = Validate(c_schema, envValues)
  /\ c_pc' = IF Validate(c_schema, envValues).kind = "returned" THEN "done" ELSE "failed"

\* if (opts.sources) envValues = await resolveAdapters(opts.sources): the
\* branch overlays nothing on what resolveAdapters returned.
EnvValuesFromSourcesOverlaid(resolved, opts, penv) ==
  OverlayProcessEnv(resolved, opts, penv)

EnvValuesFromSources(resolved, opts, penv) ==
  resolved

\* resolveAdapters returned: validate its map
CreateFromAdapters ==
  /\ c_pc = "resolving"
  /\ r_pc = "done"
  /\ Finish(EnvValuesFromSources(r_result, c_opts, processEnv))
  /\ UNCHANGED << envVars, concurrentVars, jsonVars, heap, objectVars, facadeVars, parserVars, validatorVars, resolveVars, loaderVars,
                  c_path, c_schema, c_opts >>

\* resolveAdapters rejected
CreateAdapterFailed ==
  /\ c_pc = "resolving"
  /\ r_pc = "threw"
  /\ c_pc' = "failed"
  /\ c_out' = AdapterErrorThrown
  /\ UNCHANGED << envVars, concurrentVars, jsonVars, heap, objectVars, facadeVars, parserVars, validatorVars, resolveVars, loaderVars,
                  c_path, c_schema, c_opts, c_envValues >>

\* loader.load() returned: parse the files, overlay the environment, validate
CreateFromFiles ==
  /\ c_pc = "loading"
  /\ l_pc = "done"
  /\ Finish(EnvValuesFromFiles(TRUE, l_results, c_opts, processEnv))
  /\ UNCHANGED << envVars, concurrentVars, jsonVars, heap, objectVars, facadeVars, parserVars, validatorVars, resolveVars, loaderVars,
                  c_path, c_schema, c_opts >>

\* neither a path nor sources: the environment alone is validated
CreateFromEnvironment ==
  /\ c_pc = "called"
  /\ ~c_path
  /\ c_opts.sources = NoSources
  /\ Finish(EnvValuesFromFiles(FALSE, <<>>, c_opts, processEnv))
  /\ UNCHANGED << envVars, concurrentVars, jsonVars, heap, objectVars, facadeVars, parserVars, validatorVars, resolveVars, loaderVars,
                  c_path, c_schema, c_opts >>

\* ------------------------------------------------------------------------
\* fromJSON (adapters/json.ts)
\* ------------------------------------------------------------------------

\* The JSON types, as typeof and the error message spell them.
T_object == << "o", "b", "j", "e", "c", "t" >>
T_array == << "a", "r", "r", "a", "y" >>
T_null == << "n", "u", "l", "l" >>
T_number == << "n", "u", "m", "b", "e", "r" >>
T_string == << "s", "t", "r", "i", "n", "g" >>
T_boolean == << "b", "o", "o", "l", "e", "a", "n" >>
\* (not a type: the text is not JSON)
T_invalid == << "<", "S", "y", "n", "t", "a", "x", "E", "r", "r", "o", "r", ">" >>

S_true == << "t", "r", "u", "e" >>
S_false == << "f", "a", "l", "s", "e" >>

\* s.split(c) for a one-character c
RECURSIVE SplitOn(_, _)
SplitOn(s, c) ==
  IF IndexOf(s, c) = -1 THEN << s >>
  ELSE << Slice(s, 0, IndexOf(s, c)) >> \o SplitOn(SliceFrom(s, IndexOf(s, c) + 1), c)

\* JSON.parse of a scalar: its type and, for String(value), its text.
JSONScalar(text) ==
  IF text = T_null THEN [type |-> T_null, text |-> text]
  ELSE IF text \in { S_true, S_false } THEN [type |-> T_boolean, text |-> text]
  ELSE IF Len(text) >= 2 /\ text[1] = "\"" /\ text[Len(text)] = "\""
  THEN [type |-> T_string, text |-> SubSeq(text, 2, Len(text) - 1)]
  ELSE IF text # <<>> /\ \A n \in DOMAIN text : text[n] \in Digit
  THEN [type |-> T_number, text |-> text]
  ELSE [type |-> T_invalid, text |-> text]

\* One member "key":value of an object.
JSONMember(item) ==
  LET colon == IndexOf(item, ":")
      name == JSONScalar(Slice(item, 0, colon))
      value == JSONScalar(SliceFrom(item, colon + 1))
  IN IF colon = -1 \/ name.type # T_string
     THEN [key |-> <<>>, type |-> T_invalid, text |-> <<>>]
     ELSE [key |-> name.text, type |-> value.type, text |-> value.text]

\* JSON.parse(contents), for documents without white space whose objects and
\* arrays hold scalars only and whose strings hold no escape, comma, colon or
\* bracket: the top-level type, the text of a scalar, the members of an
\* object or array in document order.
JSONParse(contents) ==
  LET inner == SubSeq(contents, 2, Len(contents) - 1)
      items == IF inner = <<>> THEN <<>> ELSE SplitOn(inner, ",")
      bracketed(open, close) ==
        Len(contents) >= 2 /\ contents[1] = open /\ contents[Len(contents)] = close
      elements == [n \in DOMAIN items |->
                     [key |-> <<>>, type |-> JSONScalar(items[n]).type,
                      text |-> JSONScalar(items[n]).text]]
      members == [n \in DOMAIN items |-> JSONMember(items[n])]
      broken(ms) == \E n \in DOMAIN ms : ms[n].type = T_invalid
      invalid == [type |-> T_invalid, text |-> <<>>, members |-> <<>>]
  IN IF bracketed("[", "]")
     THEN IF broken(elements) THEN invalid
          ELSE [type |-> T_array, text |-> <<>>, members |-> elements]
     ELSE IF bracketed("{", "}")
     THEN IF broken(members) THEN invalid
          ELSE [type |-> T_object, text |-> <<>>, members |-> members]
     ELSE [type |-> JSONScalar(contents).type, text |-> JSONScalar(contents).text,
           members |-> <<>>]

\* typeof data, Array.isArray(data)
TypeOf(data) ==
  IF data.type \in { T_object, T_array, T_null } THEN T_object ELSE data.type

IsArray(data) == data.type = T_array

\* The condition of the structure check:
\* typeof data !== 'object' || data === null || Array.isArray(data)
NotFlatObject(data) ==
  TypeOf(data) # T_object \/ data.type = T_null \/ IsArray(data)

\* The message of the TypeError of the structure check.
StructureMessage(filePath, data) ==
  << "[", "e", "n", "w", "o", "w", "]", " ", "f", "r", "o", "m", "J", "S", "O", "N", ":", " ", "e", "x", "p", "e", "c", "t", "e", "d", " ", "a", " ", "f", "l", "a", "t", " ", "o", "b", "j", "e", "c", "t", " ", "i", "n", " ", "\"" >>
    \o filePath \o << "\"", ",", " ", "g", "o", "t", " " >>
    \o (IF IsArray(data) THEN T_array ELSE TypeOf(data))

\* for (const [key, value] of Object.entries(data)):
\*   result[key] = value == null ? undefined : String(value)
RECURSIVE JSONEntries(_, _, _)
JSONEntries(result, members, n) ==
  IF n > Len(members) THEN result
  ELSE JSONEntries(
         Assign(result, members[n].key,
                IF members[n].type = T_null THEN UNDEF ELSE members[n].text),
         members, n + 1)

\* readFileContent(path): as EnvLoader.readFile, null when the file is missing;
\* an unreadable file gives null on node and deno and a rejection on bun.
NULL == << "<null>" >>

ReadFileContent(rt, files, path) ==
  IF path \notin DOMAIN files THEN [tag |-> "null", contents |-> NULL]
  ELSE IF files[path] = UNREADABLE
  THEN IF rt = "bun" THEN [tag |-> "throw", contents |-> NULL]
       ELSE [tag |-> "null", contents |-> NULL]
  ELSE [tag |-> "contents", contents |-> files[path]]

NoLoad == [kind |-> "none", value |-> NoMap, message |-> <<>>]

JSONIdle ==
  /\ j_pc = "idle" /\ j_path = <<>> /\ j_contents = NULL /\ j_out = NoLoad

\* const contents = await readFileContent(filePath)
JSONLoadRead ==
  /\ j_pc = "new"
  /\ LET read == ReadFileContent(runtime, fs, j_path)
     IN /\ j_contents' = read.contents
        /\ j_pc' = IF read.tag = "throw" THEN "threw" ELSE "read"
        /\ j_out' = IF read.tag = "throw"
                    THEN [kind |-> "ReadError", value |-> NoMap, message |-> <<>>]
                    ELSE j_out
  /\ UNCHANGED << envVars, concurrentVars, parserVars, validatorVars, resolveVars, loaderVars,
                  createVars, heap, objectVars, facadeVars, j_path >>

\* the rest of load(): {} for a missing file, JSON.parse, the structure check,
\* the conversion of the entries
JSONLoadFinish ==
  /\ j_pc = "read"
  /\ LET data == JSONParse(j_contents)
     IN j_out' =
          IF j_contents = NULL
          THEN [kind |-> "returned", value |-> EmptyMap, message |-> <<>>]
          ELSE IF data.type = T_invalid
          THEN [kind |-> "SyntaxError", value |-> NoMap, message |-> <<>>]
          ELSE IF NotFlatObject(data)
          THEN [kind |-> "TypeError", value |-> NoMap,
                message |-> StructureMessage(j_path, data)]
          ELSE [kind |-> "returned", value |-> JSONEntries(EmptyMap, data.members, 1),
                message |-> <<>>]
  /\ j_pc' = IF j_out'.kind = "returned" THEN "done" ELSE "threw"
  /\ UNCHANGED << envVars, concurrentVars, parserVars, validatorVars, resolveVars, loaderVars,
                  createVars, heap, objectVars, facadeVars, j_path, j_contents >>

\* ------------------------------------------------------------------------
\* Objects held by reference: fromObject (adapters/object.ts) and the Env
\* facade (env.ts)
\* ------------------------------------------------------------------------

\* A reference is a position in heap, 0 is no object.  A caller holding a
\* reference can write to the object: obj[key] = value.
CallerKeys == { << "V" >>, << "W" >> }
CallerValues == { << "1" >>, << "9" >> }

\* The most load() calls on one fromObject adapter, and the most all() calls
\* on one Env.
MaxLoads == 2
MaxAlls == 2

\* load() { return { ...opts.env } }: the heap after the call and the
\* reference returned.
ObjectLoadResultShared(h, env) ==
  [heap |-> h, ref |-> env]

ObjectLoadResult(h, env) ==
  [heap |-> Append(h, Overlay(EmptyMap, h[env])), ref |-> Len(h) + 1]

NoOperation == [op |-> "none", index |-> 0]

ObjectIdle ==
  /\ o_source = 0 /\ o_returned = <<>> /\ o_did = NoOperation

\* adapter.load()
ObjectLoad ==
  /\ o_source # 0
  /\ Len(o_returned) < MaxLoads
  /\ LET r == ObjectLoadResult(heap, o_source)
     IN /\ heap' = r.heap
        /\ o_returned' = Append(o_returned, r.ref)
  /\ o_did' = [op |-> "load", index |-> Len(o_returned) + 1]
  /\ UNCHANGED << envVars, concurrentVars, parserVars, validatorVars, resolveVars, loaderVars,
                  createVars, jsonVars, facadeVars, o_source >>

\* the caller writes to the map an earlier load() returned
CallerWritesLoaded ==
  /\ o_source # 0
  /\ \E i \in DOMAIN o_returned, k \in CallerKeys, v \in CallerValues :
       /\ Get(heap[o_returned[i]], k) # v
       /\ heap' = [heap EXCEPT ![o_returned[i]] = Assign(@, k, v)]
       /\ o_did' = [op |-> "writeLoaded", index |-> i]
  /\ UNCHANGED << envVars, concurrentVars, parserVars, validatorVars, resolveVars, loaderVars,
                  createVars, jsonVars, facadeVars, o_source, o_returned >>

\* the caller writes to the source object it gave to fromObject
CallerWritesSource ==
  /\ o_source # 0
  /\ \E k \in CallerKeys, v \in CallerValues :
       /\ Get(heap[o_source], k) # v
       /\ heap' = [heap EXCEPT ![o_source] = Assign(@, k, v)]
       /\ o_did' = [op |-> "writeSource", index |-> 0]
  /\ UNCHANGED << envVars, concurrentVars, parserVars, validatorVars, resolveVars, loaderVars,
                  createVars, jsonVars, facadeVars, o_source, o_returned >>

\* get(key): this.values[key]
EnvGetResult(values, key) == Get(values, key)

\* has(key): this.values[key] !== undefined
EnvHasResult(values, key) == Get(values, key) # UNDEF

\* all() { return { ...this.values } }
EnvAllResultShared(h, values) ==
  [heap |-> h, ref |-> values]

EnvAllResult(h, values) ==
  [heap |-> Append(h, Overlay(EmptyMap, h[values])), ref |-> Len(h) + 1]

NoCall == [op |-> "none", key |-> <<>>, value |-> UNDEF, flag |-> FALSE, index |-> 0]

FacadeIdle ==
  /\ e_values = 0 /\ e_alls = <<>> /\ e_first = EmptyMap /\ e_did = NoCall

\* env.get(k)
EnvGet ==
  /\ e_values # 0
  /\ \E k \in CallerKeys :
       /\ e_did' = [op |-> "get", key |-> k,
                    value |-> EnvGetResult(heap[e_values], k),
                    flag |-> FALSE, index |-> 0]
       /\ e_first' = IF k \in DOMAIN e_first THEN e_first
                     ELSE [x \in DOMAIN e_first \cup { k } |->
                             IF x = k THEN EnvGetResult(heap[e_values], k)
                             ELSE e_first[x]]
  /\ UNCHANGED << envVars, concurrentVars, parserVars, validatorVars, resolveVars, loaderVars,
                  createVars, jsonVars, heap, objectVars, e_values, e_alls >>

\* env.has(k)
EnvHas ==
  /\ e_values # 0
  /\ \E k \in CallerKeys :
       e_did' = [op |-> "has", key |-> k, value |-> UNDEF,
                 flag |-> EnvHasResult(heap[e_values], k), index |-> 0]
  /\ UNCHANGED << envVars, concurrentVars, parserVars, validatorVars, resolveVars, loaderVars,
                  createVars, jsonVars, heap, objectVars, e_values, e_alls, e_first >>

\* env.all()
EnvAll ==
  /\ e_values # 0
  /\ Len(e_alls) < MaxAlls
  /\ LET r == EnvAllResult(heap, e_values)
     IN /\ heap' = r.heap
        /\ e_alls' = Append(e_alls, r.ref)
  /\ e_did' = [op |-> "all", key |-> <<>>, value |-> UNDEF, flag |-> FALSE,
               index |-> Len(e_alls) + 1]
  /\ UNCHANGED << envVars, concurrentVars, parserVars, validatorVars, resolveVars, loaderVars,
                  createVars, jsonVars, objectVars, e_values, e_first >>

\* the caller writes to an object an earlier all() returned
CallerWritesAll ==
  /\ e_values # 0
  /\ \E i \in DOMAIN e_alls, k \in CallerKeys, v \in CallerValues \cup { UNDEF } :
       /\ Get(heap[e_alls[i]], k) # v
       /\ heap' = [heap EXCEPT ![e_alls[i]] = Assign(@, k, v)]
       /\ e_did' = [op |-> "write", key |-> k, value |-> v, flag |-> FALSE,
                    index |-> i]
  /\ UNCHANGED << envVars, concurrentVars, parserVars, validatorVars, resolveVars, loaderVars,
                  createVars, jsonVars, objectVars, e_values, e_alls, e_first >>

\* ------------------------------------------------------------------------
\* fromFiles (adapters/files.ts) and fromObject as sources of Env.create
\* ------------------------------------------------------------------------

\* loader.load() run to its end, as fromFiles awaits it: the files read and
\* whether an exception left load().
RECURSIVE LoadFrom(_, _, _, _, _)
LoadFrom(did, names, n, rt, files) ==
  IF did.threw \/ n > Len(names) THEN did
  ELSE LET filePath == JoinPath(Directory, names[n])
       IN LoadFrom(LoadOne(did.results, filePath, ReadFile(rt, files, filePath)),
                   names, n + 1, rt, files)

LoaderLoad(options, rt, files, penv) ==
  LoadFrom([results |-> <<>>, threw |-> FALSE], GetFileNames(options, penv), 1, rt, files)

\* let envValues = {}; for (const file of files.reverse()) envValues =
\* { ...envValues, ...parser.parse() }; return envValues
FromFilesValuesAsLoaded(files, opts, penv) ==
  MergeParsed(EmptyMap, files, 1, opts, penv)

FromFilesValues(files, opts, penv) ==
  MergeParsed(EmptyMap, ParseOrder(files), 1, opts, penv)

\* fromFiles(opts), for a directory whose files are `files`: the adapter with
\* what its load() gives.
FromFiles(opts, rt, files, penv) ==
  LET loaded == LoaderLoad([nodeEnv |-> opts.nodeEnv, files |-> opts.files],
                           rt, files, penv)
  IN IF loaded.threw THEN FailingAdapter("files")
     ELSE Adapter("files", FromFilesValues(loaded.results, opts, penv))

\* fromObject({ env }): load() gives { ...opts.env }
FromObject(env) == Adapter("object", Overlay(EmptyMap, env))

\* ------------------------------------------------------------------------
\* Concurrent calls of resolveAdapters and Env.create
\* ------------------------------------------------------------------------

\* Several calls are in progress at once; a call runs until its next await,
\* then any call may go on.  Each call has its own locals (a record of
\* k_calls).  What the calls share is the file system, the process
\* environment and the adapters: k_sources[a] is an adapter whose load()
\* fails, or returns the object at heap[ref], the same object on every load
\* (as fromProcessEnv returns env itself).

\* const values = await adapter.load(); result = { ...result, ...values }
\* for a call with locals result and i: the shared objects afterwards and
\* where the call stands.
SettleSharedInPlace(h, source, result, i) ==
  LET after == AfterLoad([name |-> "source", fails |-> source.fails,
                          values |-> h[source.ref]], result, i)
  IN [heap |-> IF source.fails THEN h ELSE [h EXCEPT ![source.ref] = after.result],
      after |-> after]

SettleShared(h, source, result, i) ==
  [heap |-> h,
   after |-> AfterLoad([name |-> "source", fails |-> source.fails,
                        values |-> h[source.ref]], result, i)]

\* What resolveAdapters returns to its caller.
Resolved(result) == [kind |-> "returned", value |-> result, issues |-> <<>>]

ConcurrentIdle ==
  /\ k_sources = <<>> /\ k_calls = <<>>

\* The call starts and runs to its first await: let result = {} of
\* resolveAdapters (called by create when sources are given), or
\* getFileNames() of the loader create makes for its path.
ConcurrentBegin ==
  /\ \E c \in DOMAIN k_calls :
       /\ k_calls[c].pc = "called"
       /\ k_calls' =
            [k_calls EXCEPT ![c] =
               IF k_calls[c].kind = "createPath"
               THEN [@ EXCEPT !.pc = "reading",
                              !.names = GetFileNames([nodeEnv |-> k_calls[c].opts.nodeEnv,
                                                      files |-> NoList], processEnv),
                              !.files = <<>>, !.i = 0]
               ELSE [@ EXCEPT !.pc = "loop", !.result = EmptyMap, !.i = 0]]
  /\ UNCHANGED << envVars, jsonVars, heap, objectVars, facadeVars, parserVars,
                  validatorVars, resolveVars, loaderVars, createVars, k_sources >>

\* adapter.load() is called for the next adapter of the call's list
ConcurrentLoad ==
  /\ \E c \in DOMAIN k_calls :
       /\ k_calls[c].pc = "loop"
       /\ k_calls[c].i < Len(k_calls[c].adapters)
       /\ k_calls' = [k_calls EXCEPT ![c].pc = "awaiting"]
  /\ UNCHANGED << envVars, jsonVars, heap, objectVars, facadeVars, parserVars,
                  validatorVars, resolveVars, loaderVars, createVars, k_sources >>

\* the awaited load settles
ConcurrentSettle ==
  /\ \E c \in DOMAIN k_calls :
       /\ k_calls[c].pc = "awaiting"
       /\ LET call == k_calls[c]
              s == SettleShared(heap, k_sources[call.adapters[call.i + 1]],
                                call.result, call.i)
          IN /\ heap' = s.heap
             /\ k_calls' =
                  [k_calls EXCEPT ![c] =
                     IF s.after.pc = "threw"
                     THEN [@ EXCEPT !.pc = "failed", !.out = AdapterErrorThrown]
                     ELSE [@ EXCEPT !.pc = "loop", !.result = s.after.result,
                                    !.i = s.after.i]]
  /\ UNCHANGED << envVars, jsonVars, objectVars, facadeVars, parserVars,
                  validatorVars, resolveVars, loaderVars, createVars, k_sources >>

\* return result; in create, validator.validate(envValues) follows
ConcurrentReturn ==
  /\ \E c \in DOMAIN k_calls :
       /\ k_calls[c].pc = "loop"
       /\ k_calls[c].i = Len(k_calls[c].adapters)
       /\ LET call == k_calls[c]
              out == IF call.kind = "resolveAdapters" THEN Resolved(call.result)
                     ELSE Validate(call.schema, call.result)
          IN k_calls' =
               [k_calls EXCEPT ![c] =
                  [@ EXCEPT !.out = out,
                            !.pc = IF out.kind = "returned" THEN "done" ELSE "failed"]]
  /\ UNCHANGED << envVars, jsonVars, heap, objectVars, facadeVars, parserVars,
                  validatorVars, resolveVars, loaderVars, createVars, k_sources >>

\* one iteration of the loader's loop: await this.readFile(filePath)
ConcurrentRead ==
  /\ \E c \in DOMAIN k_calls :
       /\ k_calls[c].pc = "reading"
       /\ k_calls[c].i < Len(k_calls[c].names)
       /\ LET call == k_calls[c]
              filePath == JoinPath(Directory, call.names[call.i + 1])
              did == LoadOne(call.files, filePath, ReadFile(runtime, fs, filePath))
          IN k_calls' = [k_calls EXCEPT ![c] =
                           [@ EXCEPT !.files = did.results, !.i = call.i + 1]]
  /\ UNCHANGED << envVars, jsonVars, heap, objectVars, facadeVars, parserVars,
                  validatorVars, resolveVars, loaderVars, createVars, k_sources >>

\* loader.load() returned: parse the files, overlay the environment, validate
ConcurrentFromFiles ==
  /\ \E c \in DOMAIN k_calls :
       /\ k_calls[c].pc = "reading"
       /\ k_calls[c].i = Len(k_calls[c].names)
       /\ LET call == k_calls[c]
              envValues == EnvValuesFromFiles(TRUE, call.files, call.opts, processEnv)
              out == Validate(call.schema, envValues)
          IN k_calls' =
               [k_calls EXCEPT ![c] =
                  [@ EXCEPT !.result = envValues, !.out = out,
                            !.pc = IF out.kind = "returned" THEN "done" ELSE "failed"]]
  /\ UNCHANGED << envVars, jsonVars, heap, objectVars, facadeVars, parserVars,
                  validatorVars, resolveVars, loaderVars, createVars, k_sources >>

\* ------------------------------------------------------------------------
\* Inputs of the validator specification
\* ------------------------------------------------------------------------

\* The longest schema, in fields.
MaxFields == 3

K_V == << "V" >>
K_W == << "W" >>

\* Field n of a schema has the n-th of these keys.
SchemaKeys == << K_V, K_W, << "X" >>, << "Y" >>, << "Z" >> >>

Schemas ==
  { [n \in DOMAIN kinds |-> [key |-> SchemaKeys[n], kind |-> kinds[n]]] :
      kinds \in UNION { [1..len -> FieldKinds] : len \in 0..MaxFields } }

ValidateEnvs ==
  { EmptyMap, [k \in {K_V} |-> << "1" >>], [k \in {K_W} |-> << "2" >>],
    [k \in {K_V, K_W} |-> IF k = K_V THEN << "1" >> ELSE << "2" >>] }

InitValidate ==
  /\ ConcurrentIdle
  /\ processEnv = EmptyMap /\ fs = EmptyMap /\ runtime = "node"
  /\ JSONIdle /\ heap = <<>> /\ ObjectIdle /\ FacadeIdle
  /\ ParserIdle /\ ResolveIdle /\ LoaderIdle /\ CreateIdle
  /\ v_pc = "new"
  /\ v_schema \in Schemas
  /\ v_env \in ValidateEnvs
  /\ v_i = 0 /\ v_st = ValidateStart /\ v_calls = <<>> /\ v_out = NoOutcome

NextValidate == ValidateBegin \/ ValidateIteration \/ ValidateFinish

SpecValidate == InitValidate /\ [][NextValidate]_vars

\* ------------------------------------------------------------------------
\* Inputs of the parser specification
\* ------------------------------------------------------------------------

\* The longest document, in lines.
MaxLines == 3

K_A == << "A" >>
K_B == << "B" >>
K_E == << "E" >>

L_A_x == << "A", "=", "x" >>
L_A_empty == << "A", "=" >>
L_B_bareA == << "B", "=", "$", "A" >>
L_B_dqBracedA == << "B", "=", "\"", "$", "{", "A", "}", "y", "\"" >>
L_B_sqA == << "B", "=", "'", "$", "A", "'" >>
L_B_sqOpen == << "B", "=", "'", "$", "{", "A", "}" >>
L_sqClose == << "$", "E", "'" >>
L_B_dqOpen == << "B", "=", "\"", "$", "A" >>
L_dqClose == << "$", "E", "\"" >>
L_B_bareE == << "B", "=", "$", "E" >>
L_B_inherited == << "B", "=", "$", "c", "o", "n", "s", "t", "r", "u", "c", "t", "o", "r" >>

ParseLineSet == { L_A_x, L_A_empty, L_B_bareA, L_B_dqBracedA, L_B_sqA, L_B_sqOpen, L_sqClose, L_B_dqOpen, L_dqClose, L_B_bareE, L_B_inherited }

\* Every document of at most MaxLines lines of ParseLineSet, joined by \n.
ParseDocs ==
  { JoinLines(ls) : ls \in UNION { [1..n -> ParseLineSet] : n \in 0..MaxLines } }

ParseEnvSources == { NoMap, [k \in {K_A} |-> << "s" >>], [k \in {K_E} |-> << "e" >>] }

ParseProcessEnv == [k \in {K_E} |-> << "p" >>]

InitParse ==
  /\ ConcurrentIdle
  /\ processEnv = ParseProcessEnv /\ fs = EmptyMap /\ runtime = "node"
  /\ JSONIdle /\ heap = <<>> /\ ObjectIdle /\ FacadeIdle
  /\ ResolveIdle /\ LoaderIdle /\ CreateIdle
  /\ p_pc = "new"
  /\ p_contents \in ParseDocs
  /\ p_opts \in [ignoreProcessEnv : BOOLEAN, envSource : ParseEnvSources]
  /\ p_lines = <<>> /\ p_i = 0 /\ p_st = ParseStart /\ p_did = NoIteration
  /\ ValidatorIdle

NextParse == ParseBegin \/ ParseIteration \/ ParseReturn

SpecParse == InitParse /\ [][NextParse]_vars

\* ------------------------------------------------------------------------
\* Inputs of the single-line parser specification
\* ------------------------------------------------------------------------

\* The longest VALUE of a line KEY=VALUE, in characters.
MaxValueLen == 5

K_K == << "K" >>

\* The characters of the values: space, #, both quotes, $ and a letter.
ValueAlphabet == { " ", "#", "\"", "'", "$", "A" }

LineValues == UNION { [1..n -> ValueAlphabet] : n \in 0..MaxValueLen }

\* The document is one line KEY=VALUE, after an optional first line A=x, or
\* one line without any = sign.  The process environment defines A as well.
InitParseLine ==
  /\ ConcurrentIdle
  /\ processEnv = [k \in {K_A} |-> << "p" >>] /\ fs = EmptyMap /\ runtime = "node"
  /\ JSONIdle /\ heap = <<>> /\ ObjectIdle /\ FacadeIdle
  /\ ResolveIdle /\ LoaderIdle /\ CreateIdle /\ ValidatorIdle
  /\ p_pc = "new"
  /\ p_opts \in [ignoreProcessEnv : BOOLEAN, envSource : {NoMap}]
  /\ \/ \E value \in LineValues, first \in { <<>>, L_A_x \o << "\n" >> } :
          p_contents = first \o K_K \o << "=" >> \o value
     \/ \E value \in LineValues, key \in { <<>>, S_proto } :
          /\ p_contents = key \o << "=" >> \o value
          /\ ~p_opts.ignoreProcessEnv
     \/ \E value \in LineValues :
          /\ p_contents = value
          /\ ~p_opts.ignoreProcessEnv
  /\ p_lines = <<>> /\ p_i = 0 /\ p_st = ParseStart /\ p_did = NoIteration

SpecParseLine == InitParseLine /\ [][NextParse]_vars

\* ------------------------------------------------------------------------
\* Inputs of the multi-line parser specification
\* ------------------------------------------------------------------------

\* The longest document with multi-line values, in lines.
MaxMultiLines == 4

L_blank == <<>>
L_comment == << "#", " ", "c" >>

\* Lines that open a quoted value, lines that close one, and a blank line, a
\* comment line and a KEY=VALUE line to stand between them.
MultiLineSet ==
  { L_B_sqOpen, L_B_dqOpen, L_blank, L_comment, L_A_x, L_sqClose, L_dqClose }

MultiDocs ==
  { JoinLines(ls) : ls \in UNION { [1..n -> MultiLineSet] : n \in 1..MaxMultiLines } }

InitParseMulti ==
  /\ ConcurrentIdle
  /\ processEnv = ParseProcessEnv /\ fs = EmptyMap /\ runtime = "node"
  /\ JSONIdle /\ heap = <<>> /\ ObjectIdle /\ FacadeIdle
  /\ ResolveIdle /\ LoaderIdle /\ CreateIdle /\ ValidatorIdle
  /\ p_pc = "new"
  /\ p_contents \in MultiDocs
  /\ p_opts \in [ignoreProcessEnv : BOOLEAN, envSource : {NoMap}]
  /\ p_lines = <<>> /\ p_i = 0 /\ p_st = ParseStart /\ p_did = NoIteration

SpecParseMulti == InitParseMulti /\ [][NextParse]_vars

\* ------------------------------------------------------------------------
\* Inputs of the resolveAdapters specification
\* ------------------------------------------------------------------------

\* The longest list of adapters.
MaxAdapters == 3

\* The maps the adapters load; a key may hold undefined (a JSON null).
ResolveMaps ==
  { EmptyMap,
    [k \in {K_V} |-> << "1" >>],
    [k \in {K_V} |-> << "2" >>],
    [k \in {K_V} |-> UNDEF],
    [k \in {K_W} |-> << "1" >>],
    [k \in {K_V, K_W} |-> IF k = K_V THEN << "1" >> ELSE << "2" >>],
    [k \in {K_V, K_W} |-> IF k = K_V THEN << "2" >> ELSE UNDEF] }

ResolveAdapters ==
  { Adapter("source", m) : m \in ResolveMaps } \cup { FailingAdapter("source") }

AdapterLists(adapters) ==
  UNION { [1..n -> adapters] : n \in 0..MaxAdapters }

InitResolve ==
  /\ ConcurrentIdle
  /\ processEnv = EmptyMap /\ fs = EmptyMap /\ runtime = "node"
  /\ JSONIdle /\ heap = <<>> /\ ObjectIdle /\ FacadeIdle
  /\ ParserIdle /\ ValidatorIdle /\ LoaderIdle /\ CreateIdle
  /\ r_pc = "new"
  /\ r_adapters \in AdapterLists(ResolveAdapters)
  /\ r_i = 0 /\ r_result = EmptyMap /\ r_loads = <<>>

NextResolve == ResolveBegin \/ AdapterLoad \/ AdapterSettle \/ ResolveReturn

SpecResolve == InitResolve /\ [][NextResolve]_vars

\* ------------------------------------------------------------------------
\* Inputs of the loader specification
\* ------------------------------------------------------------------------

M_dev == << "d", "e", "v" >>
M_local == << "l", "o", "c", "a", "l" >>

\* V=a, then W=$V on a second line
F_a == << "V", "=", "a", "\n", "W", "=", "$", "V" >>
\* V=b
F_b == << "V", "=", "b" >>

\* Every directory holding some of `names`, each with one of `texts`.
Directories(names, texts) ==
  UNION { [{ JoinPath(Directory, name) : name \in D } -> texts] : D \in SUBSET names }

\* The names a directory may hold for a mode.
NamesOfMode(mode) ==
  { S_env, S_env \o S_dotLocal }
    \cup (IF Truthy(mode)
          THEN { S_env \o << "." >> \o mode, S_env \o << "." >> \o mode \o S_dotLocal }
          ELSE {})

ModeOf(nodeEnv, penv) == IF nodeEnv # UNDEF THEN nodeEnv ELSE Get(penv, K_NODE_ENV)

LoadModes == { UNDEF, <<>>, S_test, S_testing, M_dev, M_local }

LoadProcessEnvs ==
  { EmptyMap, [k \in {K_NODE_ENV} |-> <<>>],
    [k \in {K_NODE_ENV} |-> S_test], [k \in {K_NODE_ENV} |-> M_dev] }

LoadFileLists ==
  { <<>>,
    << << "c", "u", "s", "t", "o", "m", ".", "e", "n", "v" >> >>,
    << << "s", "u", "b", "/", ".", "e", "n", "v" >>, S_env \o S_dotLocal >>,
    << << "c", "o", "n", "f", "/" >> >> }

LoadListedNames ==
  { << "c", "u", "s", "t", "o", "m", ".", "e", "n", "v" >>,
    << "s", "u", "b", "/", ".", "e", "n", "v" >>,
    S_env, S_env \o S_dotLocal, << "c", "o", "n", "f" >> }

Runtimes == { "node", "deno", "bun" }

InitLoad ==
  /\ ConcurrentIdle
  /\ JSONIdle /\ heap = <<>> /\ ObjectIdle /\ FacadeIdle
  /\ ParserIdle /\ ValidatorIdle /\ ResolveIdle /\ CreateIdle
  /\ runtime \in Runtimes
  /\ l_pc = "new"
  /\ \/ /\ processEnv \in LoadProcessEnvs
        /\ l_opts \in [nodeEnv : LoadModes, files : {NoList}]
        /\ fs \in Directories(NamesOfMode(ModeOf(l_opts.nodeEnv, processEnv)),
                              { <<>>, F_b, UNREADABLE })
     \/ /\ processEnv = EmptyMap
        /\ l_opts \in [nodeEnv : {UNDEF}, files : LoadFileLists]
        /\ fs \in Directories(LoadListedNames, { F_b, UNREADABLE })
  /\ l_files = <<>> /\ l_n = 0 /\ l_results = <<>> /\ l_reads = <<>>

NextLoad == LoadBegin \/ LoadFile \/ LoadReturn

SpecLoad == InitLoad /\ [][NextLoad]_vars

\* ------------------------------------------------------------------------
\* Inputs of the Env.create specification
\* ------------------------------------------------------------------------

CreateSchemas ==
  { << [key |-> K_V, kind |-> "string"], [key |-> K_W, kind |-> "optional"] >>,
    << [key |-> K_V, kind |-> "default"], [key |-> K_W, kind |-> "string"] >> }

CreateEnvSources ==
  { NoMap, [k \in {K_V, K_W} |-> IF k = K_V THEN << "e" >> ELSE UNDEF] }

CreateProcessEnvs ==
  { [k \in {K_V} |-> << "p" >>],
    [k \in {K_V, K_NODE_ENV} |-> IF k = K_V THEN << "p" >> ELSE S_test] }

CreateAdapters ==
  { Adapter("first", [k \in {K_V} |-> << "1" >>]),
    Adapter("second", [k \in {K_V, K_W} |-> IF k = K_V THEN << "2" >> ELSE UNDEF]),
    FailingAdapter("broken") }

\* The names a directory may hold when create() runs with option nodeEnv in
\* environment penv: those of the mode in effect, and the ambient mode's file
\* when the option names another mode.
CreateNames(nodeEnv, penv) ==
  NamesOfMode(ModeOf(nodeEnv, penv))
    \cup (IF Truthy(Get(penv, K_NODE_ENV))
          THEN { S_env \o << "." >> \o Get(penv, K_NODE_ENV) }
          ELSE {})

InitCreate ==
  /\ ConcurrentIdle
  /\ JSONIdle /\ heap = <<>> /\ ObjectIdle /\ FacadeIdle
  /\ ParserIdle /\ ValidatorIdle /\ ResolveIdle /\ LoaderIdle
  /\ c_pc = "called"
  /\ c_schema \in CreateSchemas
  /\ c_envValues = NoMap /\ c_out = NoOutcome
  /\ \/ \* a directory, any mode, any of its files present
        /\ c_path = TRUE
        /\ processEnv \in CreateProcessEnvs
        /\ runtime = "node"
        /\ c_opts \in [ignoreProcessEnv : BOOLEAN,
                       nodeEnv : { UNDEF, <<>>, S_test, M_dev },
                       envSource : CreateEnvSources, sources : {NoSources}]
        /\ fs \in Directories(CreateNames(c_opts.nodeEnv, processEnv), { F_a, F_b })
     \/ \* a directory with an unreadable file, on every runtime
        /\ c_path = TRUE
        /\ processEnv = [k \in {K_V} |-> << "p" >>]
        /\ runtime \in Runtimes
        /\ c_opts \in [ignoreProcessEnv : BOOLEAN, nodeEnv : {UNDEF},
                       envSource : {NoMap}, sources : {NoSources}]
        /\ fs \in [{ JoinPath(Directory, S_env), JoinPath(Directory, S_env \o S_dotLocal) }
                     -> { F_a, F_b, UNREADABLE }]
     \/ \* a sources list, with or without a directory
        /\ c_path \in BOOLEAN
        /\ processEnv = [k \in {K_V} |-> << "p" >>]
        /\ runtime = "node"
        /\ c_opts \in [ignoreProcessEnv : BOOLEAN, nodeEnv : {UNDEF},
                       envSource : CreateEnvSources,
                       sources : AdapterLists(CreateAdapters)]
        /\ fs = [f \in { JoinPath(Directory, S_env) } |-> F_a]
     \/ \* neither
        /\ c_path = FALSE
        /\ processEnv \in CreateProcessEnvs
        /\ runtime = "node"
        /\ c_opts \in [ignoreProcessEnv : BOOLEAN, nodeEnv : {UNDEF},
                       envSource : CreateEnvSources, sources : {NoSources}]
        /\ fs = EmptyMap

NextCreate ==
  \/ CreateRejects \/ CreateResolves \/ CreateLoads
  \/ CreateFromAdapters \/ CreateAdapterFailed \/ CreateFromFiles
  \/ CreateFromEnvironment
  \/ ResolveBegin \/ AdapterLoad \/ AdapterSettle \/ ResolveReturn
  \/ LoadBegin \/ LoadFile \/ LoadReturn

SpecCreate == InitCreate /\ [][NextCreate]_vars

\* ------------------------------------------------------------------------
\* Inputs of the fromJSON specification
\* ------------------------------------------------------------------------

P_envJson == Directory \o << "e", "n", "v", ".", "j", "s", "o", "n" >>
P_aJson == Directory \o << "a", ".", "j", "s", "o", "n" >>
JSONPaths == { P_envJson, P_aJson }

D_array == << "[", "1", ",", "2", "]" >>
D_emptyArray == << "[", "]" >>
D_null == << "n", "u", "l", "l" >>
D_number == << "3", "0", "0", "0" >>
D_string == << "\"", "s", "\"" >>
D_true == << "t", "r", "u", "e" >>
D_false == << "f", "a", "l", "s", "e" >>
D_emptyObject == << "{", "}" >>
D_object == << "{", "\"", "V", "\"", ":", "\"", "1", "\"", "}" >>
D_objectNull == << "{", "\"", "V", "\"", ":", "n", "u", "l", "l", "}" >>
D_objectMixed ==
  << "{", "\"", "V", "\"", ":", "1", ",", "\"", "W", "\"", ":", "t", "r", "u", "e", "}" >>
D_invalid == << "{", "V", ":", "1", "}" >>

JSONDocuments ==
  { D_array, D_emptyArray, D_null, D_number, D_string, D_true, D_false,
    D_emptyObject, D_object, D_objectNull, D_objectMixed, D_invalid }

InitJSON ==
  /\ ConcurrentIdle
  /\ processEnv = EmptyMap
  /\ ParserIdle /\ ValidatorIdle /\ ResolveIdle /\ LoaderIdle /\ CreateIdle
  /\ heap = <<>> /\ ObjectIdle /\ FacadeIdle
  /\ runtime \in Runtimes
  /\ j_path \in JSONPaths
  /\ \/ fs = EmptyMap
     \/ \E d \in JSONDocuments \cup { UNREADABLE } : fs = [p \in { j_path } |-> d]
  /\ j_pc = "new" /\ j_contents = NULL /\ j_out = NoLoad

NextJSON ==
  \/ JSONLoadRead
  \/ JSONLoadFinish

SpecJSON == InitJSON /\ [][NextJSON]_vars

\* ------------------------------------------------------------------------
\* Inputs of the fromObject specification
\* ------------------------------------------------------------------------

ObjectSources ==
  { EmptyMap,
    [k \in { << "V" >> } |-> << "1" >>],
    [k \in CallerKeys |-> << "1" >>] }

\* fromObject({ env }) has been called with a source object of the caller.
InitObject ==
  /\ ConcurrentIdle
  /\ processEnv = EmptyMap /\ fs = EmptyMap /\ runtime = "node"
  /\ ParserIdle /\ ValidatorIdle /\ ResolveIdle /\ LoaderIdle /\ CreateIdle
  /\ JSONIdle /\ FacadeIdle
  /\ \E env \in ObjectSources : heap = << env >>
  /\ o_source = 1 /\ o_returned = <<>> /\ o_did = NoOperation

NextObject ==
  \/ ObjectLoad
  \/ CallerWritesLoaded
  \/ CallerWritesSource

SpecObject == InitObject /\ [][NextObject]_vars

\* ------------------------------------------------------------------------
\* Inputs of the Env facade specification
\* ------------------------------------------------------------------------

\* The maps validate() returns for the schemas and environments of the
\* Env.create and validator specifications.
FacadeSnapshots ==
  { Validate(schema, env).value :
      << schema, env >> \in { x \in CreateSchemas \X ValidateEnvs :
                               Validate(x[1], x[2]).kind = "returned" } }

\* Env.create has returned: new Env(validated).
InitFacade ==
  /\ ConcurrentIdle
  /\ processEnv = EmptyMap /\ fs = EmptyMap /\ runtime = "node"
  /\ ParserIdle /\ ValidatorIdle /\ ResolveIdle /\ LoaderIdle /\ CreateIdle
  /\ JSONIdle /\ ObjectIdle
  /\ \E validated \in FacadeSnapshots : heap = << validated >>
  /\ e_values = 1 /\ e_alls = <<>> /\ e_first = EmptyMap /\ e_did = NoCall

NextFacade ==
  \/ EnvGet
  \/ EnvHas
  \/ EnvAll
  \/ CallerWritesAll

SpecFacade == InitFacade /\ [][NextFacade]_vars

\* ------------------------------------------------------------------------
\* Inputs of the fromFiles specification
\* ------------------------------------------------------------------------

\* { directory, ...opts } for the options opts of Env.create
FilesOptions(opts) ==
  [nodeEnv |-> opts.nodeEnv, files |-> NoList,
   ignoreProcessEnv |-> opts.ignoreProcessEnv, envSource |-> opts.envSource]

\* E, the environment source of a call with options opts: opts.envSource, else
\* the process environment; the empty object with ignoreProcessEnv.
SourceE(opts, penv) ==
  IF opts.ignoreProcessEnv THEN EmptyMap
  ELSE IF opts.envSource # NoMap THEN opts.envSource ELSE penv

\* sources: [fromFiles({ directory, ...opts }), fromObject({ env: E })]
FilesSources(opts, rt, files, penv) ==
  << FromFiles(FilesOptions(opts), rt, files, penv), FromObject(SourceE(opts, penv)) >>

\* Env.create is called one of two ways for the same directory, schema,
\* environment and options: with the directory (c_path), or with the two
\* sources.  The options of the first way stay in c_opts beside the sources;
\* the branch of create() taken with sources reads none of them.
InitFiles ==
  /\ ConcurrentIdle
  /\ JSONIdle /\ heap = <<>> /\ ObjectIdle /\ FacadeIdle
  /\ ParserIdle /\ ValidatorIdle /\ ResolveIdle /\ LoaderIdle
  /\ c_pc = "called"
  /\ c_schema \in CreateSchemas
  /\ c_envValues = NoMap /\ c_out = NoOutcome
  /\ c_path \in BOOLEAN
  /\ \E opts \in [ignoreProcessEnv : BOOLEAN, nodeEnv : { UNDEF, S_test, M_dev },
                  envSource : CreateEnvSources, sources : {NoSources}] :
       /\ \/ /\ processEnv \in CreateProcessEnvs
             /\ runtime = "node"
             /\ fs \in Directories(CreateNames(opts.nodeEnv, processEnv), { F_a, F_b })
          \/ /\ processEnv = [k \in {K_V} |-> << "p" >>]
             /\ runtime \in Runtimes
             /\ opts.nodeEnv = UNDEF
             /\ fs \in [{ JoinPath(Directory, S_env), JoinPath(Directory, S_env \o S_dotLocal) }
                          -> { F_a, UNREADABLE }]
       /\ c_opts = IF c_path THEN opts
                   ELSE [opts EXCEPT !.sources = FilesSources(opts, runtime, fs, processEnv)]

NextFiles ==
  \/ CreateResolves \/ CreateLoads
  \/ CreateFromAdapters \/ CreateFromFiles
  \/ ResolveBegin \/ AdapterLoad \/ AdapterSettle \/ ResolveReturn
  \/ LoadBegin \/ LoadFile \/ LoadReturn

SpecFiles == InitFiles /\ [][NextFiles]_vars

\* ------------------------------------------------------------------------
\* Inputs of the loader specification with an explicit file list
\* ------------------------------------------------------------------------

\* new EnvLoader(directory, { nodeEnv, files }) with a files list, in every
\* mode, given by the option or by the ambient NODE_ENV.
InitLoadList ==
  /\ ConcurrentIdle
  /\ JSONIdle /\ heap = <<>> /\ ObjectIdle /\ FacadeIdle
  /\ ParserIdle /\ ValidatorIdle /\ ResolveIdle /\ CreateIdle
  /\ runtime = "node"
  /\ l_pc = "new"
  /\ processEnv \in LoadProcessEnvs
  /\ l_opts \in [nodeEnv : LoadModes, files : LoadFileLists]
  /\ fs \in Directories(LoadListedNames, { F_b })
  /\ l_files = <<>> /\ l_n = 0 /\ l_results = <<>> /\ l_reads = <<>>

SpecLoadList == InitLoadList /\ [][NextLoad]_vars

\* ------------------------------------------------------------------------
\* Inputs of the specification of concurrent calls
\* ------------------------------------------------------------------------

\* The most calls in progress at once.
MaxCalls == 2

\* The objects the adapters return; the third is the process environment.
SharedMaps ==
  << [k \in {K_V} |-> << "1" >>],
     [k \in {K_V, K_W} |-> IF k = K_V THEN << "2" >> ELSE UNDEF],
     [k \in {K_V} |-> << "p" >>] >>

\* Two adapters returning an object of their own, fromProcessEnv, and an
\* adapter whose load fails.
SharedSources ==
  << [fails |-> FALSE, ref |-> 1], [fails |-> FALSE, ref |-> 2],
     [fails |-> FALSE, ref |-> 3], [fails |-> TRUE, ref |-> 1] >>

ConcurrentSchema ==
  << [key |-> K_V, kind |-> "string"], [key |-> K_W, kind |-> "optional"] >>

NewCall(kind, adapters, ignoreProcessEnv) ==
  [kind |-> kind, adapters |-> adapters, schema |-> ConcurrentSchema,
   opts |-> [ignoreProcessEnv |-> ignoreProcessEnv, nodeEnv |-> UNDEF,
             envSource |-> NoMap, sources |-> NoSources],
   pc |-> "called", i |-> 0, result |-> NoMap, names |-> <<>>, files |-> <<>>,
   out |-> NoOutcome]

\* resolveAdapters(adapters), Env.create(schema, { sources: adapters }) and
\* Env.create(directory, schema, { ignoreProcessEnv })
ConcurrentCalls ==
  { NewCall("resolveAdapters", a, FALSE) : a \in { <<>>, << 1, 2 >>, << 2, 1 >>, << 1, 4, 2 >> } }
    \cup { NewCall("createSources", a, FALSE) : a \in { << 2, 3 >>, << 3, 1 >> } }
    \cup { NewCall("createPath", <<>>, b) : b \in BOOLEAN }

InitConcurrent ==
  /\ processEnv = SharedMaps[3] /\ runtime = "node"
  /\ fs = [f \in { JoinPath(Directory, S_env), JoinPath(Directory, S_env \o S_dotLocal) }
            |-> IF f = JoinPath(Directory, S_env) THEN F_a ELSE F_b]
  /\ ParserIdle /\ ValidatorIdle /\ ResolveIdle /\ LoaderIdle /\ CreateIdle
  /\ JSONIdle /\ ObjectIdle /\ FacadeIdle
  /\ heap = SharedMaps
  /\ k_sources = SharedSources
  /\ k_calls \in UNION { [1..n -> ConcurrentCalls] : n \in 1..MaxCalls }

NextConcurrent ==
  \/ ConcurrentBegin
  \/ ConcurrentLoad
  \/ ConcurrentSettle
  \/ ConcurrentReturn
  \/ ConcurrentRead
  \/ ConcurrentFromFiles

SpecConcurrent == InitConcurrent /\ [][NextConcurrent]_vars

\* ------------------------------------------------------------------------
\* Inputs of the parser specification with references in substituted text
\* ------------------------------------------------------------------------

L_A_sqBareE == << "A", "=", "'", "$", "E", "'" >>
L_A_sqBracedE == << "A", "=", "'", "$", "{", "E", "}", "'" >>
L_B_bracedA == << "B", "=", "$", "{", "A", "}" >>
L_B_dqBracedAOnly == << "B", "=", "\"", "$", "{", "A", "}", "\"" >>
L_E_x == << "E", "=", "x" >>

NestedLineSet ==
  { L_A_sqBareE, L_A_sqBracedE, L_A_x, L_B_bareA, L_B_bracedA, L_B_dqBracedAOnly, L_E_x }

\* Every document of at most MaxLines lines of NestedLineSet: A may hold the
\* text of a reference to E, which B then refers to.
NestedDocs ==
  { JoinLines(ls) : ls \in UNION { [1..n -> NestedLineSet] : n \in 0..MaxLines } }

InitParseNested ==
  /\ ConcurrentIdle
  /\ processEnv = ParseProcessEnv /\ fs = EmptyMap /\ runtime = "node"
  /\ JSONIdle /\ heap = <<>> /\ ObjectIdle /\ FacadeIdle
  /\ ResolveIdle /\ LoaderIdle /\ CreateIdle /\ ValidatorIdle
  /\ p_pc = "new"
  /\ p_contents \in NestedDocs
  /\ p_opts \in [ignoreProcessEnv : BOOLEAN, envSource : {NoMap}]
  /\ p_lines = <<>> /\ p_i = 0 /\ p_st = ParseStart /\ p_did = NoIteration

SpecParseNested == InitParseNested /\ [][NextParse]_vars

\* ------------------------------------------------------------------------
\* Inputs of the specification of references across files
\* ------------------------------------------------------------------------

\* W=$V: a reference to a key the file does not assign
F_ref == << "W", "=", "$", "V" >>

CrossEnvSources == { NoMap, [k \in {K_V} |-> << "e" >>] }

CrossProcessEnvs == { EmptyMap, [k \in {K_V} |-> << "p" >>] }

\* Env.create is called with a directory, or with the sources fromFiles and
\* fromObject for the same directory; the files hold V=b or W=$V.
InitCross ==
  /\ ConcurrentIdle
  /\ JSONIdle /\ heap = <<>> /\ ObjectIdle /\ FacadeIdle
  /\ ParserIdle /\ ValidatorIdle /\ ResolveIdle /\ LoaderIdle
  /\ c_pc = "called"
  /\ c_schema \in CreateSchemas
  /\ c_envValues = NoMap /\ c_out = NoOutcome
  /\ c_path \in BOOLEAN
  /\ runtime = "node"
  /\ processEnv \in CrossProcessEnvs
  /\ \E opts \in [ignoreProcessEnv : BOOLEAN, nodeEnv : { UNDEF, M_dev },
                  envSource : CrossEnvSources, sources : {NoSources}] :
       /\ fs \in Directories(CreateNames(opts.nodeEnv, processEnv), { F_b, F_ref })
       /\ c_opts = IF c_path THEN opts
                   ELSE [opts EXCEPT !.sources = FilesSources(opts, runtime, fs, processEnv)]

SpecCross == InitCross /\ [][NextFiles]_vars

\* ------------------------------------------------------------------------
\* Inputs of the Env.create specification with sources
\* ------------------------------------------------------------------------

\* Env.create(schema, { sources, ...options }) for every list of adapters,
\* the empty one included, with every other option and two environments.
InitSources ==
  /\ ConcurrentIdle
  /\ JSONIdle /\ heap = <<>> /\ ObjectIdle /\ FacadeIdle
  /\ ParserIdle /\ ValidatorIdle /\ ResolveIdle /\ LoaderIdle
  /\ c_pc = "called"
  /\ c_schema \in CreateSchemas
  /\ c_envValues = NoMap /\ c_out = NoOutcome
  /\ c_path = FALSE
  /\ processEnv \in CreateProcessEnvs
  /\ runtime = "node"
  /\ c_opts \in [ignoreProcessEnv : BOOLEAN, nodeEnv : { UNDEF, S_test, M_dev },
                  envSource : CreateEnvSources,
                  sources : AdapterLists(CreateAdapters)]
  /\ fs = [f \in { JoinPath(Directory, S_env) } |-> F_a]

NextSources ==
  \/ CreateResolves \/ CreateFromAdapters \/ CreateAdapterFailed
  \/ ResolveBegin \/ AdapterLoad \/ AdapterSettle \/ ResolveReturn

SpecSources == InitSources /\ [][NextSources]_vars

\* ------------------------------------------------------------------------
\* Claims about the parser (checked under SpecParse)
\* ------------------------------------------------------------------------

\* What C9 says is put in place of a reference to `name`, given the keys the
\* earlier lines assigned: the earlier key's value, else the interpolation
\* source's value (when that source is not disabled), else the empty string.
ClaimedSubstitution(name, earlier, opts, penv) ==
  IF name \in DOMAIN earlier THEN earlier[name]
  ELSE IF ~opts.ignoreProcessEnv
          /\ name \in DOMAIN InterpolationSource(opts, penv)
          /\ InterpolationSource(opts, penv)[name] # UNDEF
       THEN InterpolationSource(opts, penv)[name]
       ELSE <<>>

\* C9: every $NAME / ${NAME} occurrence of an unquoted or double-quoted value
\* is replaced by the value an earlier line of the same parse gave NAME (the
\* empty string included), otherwise by the interpolation source's value,
\* otherwise by the empty string; keys of later lines are never used.  Stated
\* on each loop iteration: every replacement it made is the claimed one,
\* computed from the result as it stood before that line.
C9_LookupOrder ==
  [][ (p_pc = "loop" /\ p_i' = p_i + 1) =>
        \A n \in DOMAIN p_did'.subs :
          p_did'.subs[n].text =
            ClaimedSubstitution(p_did'.subs[n].name, p_st.result, p_opts, processEnv)
    ]_vars

\* A reference the stored text still holds: ${NAME} with a non-empty NAME, or
\* $NAME whose $ does not follow another $.
HasReference(s) ==
  \E n \in 1..Len(s) :
    /\ s[n] = "$"
    /\ n + 1 <= Len(s)
    /\ \/ s[n + 1] \in NameStart /\ (n = 1 \/ s[n - 1] # "$")
       \/ /\ s[n + 1] = "{"
          /\ n + 2 <= Len(s)
          /\ s[n + 2] # "}"
          /\ \E m \in (n + 3)..Len(s) : s[m] = "}"

\* The text put in place of a reference can itself form a reference.
Inert(text) == \A n \in 1..Len(text) : text[n] \notin {"$", "{"}

\* C10: a single-quoted value, closed on its line or several lines later, is
\* stored exactly as written between the opening quote and the last quote
\* ($NAME and ${NAME} untouched); a double-quoted or unquoted value is
\* interpolated: no reference is left in what is stored (when the substituted
\* texts are themselves free of $ and {).
C10_SingleQuotesLiteral ==
  /\ p_did.kind = "single" =>
       /\ p_did.key \in DOMAIN p_st.result
       /\ LET v == p_st.result[p_did.key]
          IN /\ SubSeq(p_did.raw, 1, Len(v) + 2) = << "'" >> \o v \o << "'" >>
             /\ \A n \in (Len(v) + 3)..Len(p_did.raw) : p_did.raw[n] # "'"
  /\ (/\ p_did.kind \in {"double", "unquoted"}
      /\ \A n \in DOMAIN p_did.subs : Inert(p_did.subs[n].text)) =>
       /\ p_did.key \in DOMAIN p_st.result
       /\ ~HasReference(p_st.result[p_did.key])

\* C10 witness: a single-quoted value spanning lines is stored with its
\* references intact although A is assigned earlier and the environment
\* source is consulted.
C10_Witness ==
  /\ p_did.kind = "single"
  /\ Includes(p_did.raw, "\n")
  /\ K_A \in DOMAIN p_st.result
  /\ K_B \in DOMAIN p_st.result
  /\ HasReference(p_st.result[K_B])
  /\ ~p_opts.ignoreProcessEnv

\* ------------------------------------------------------------------------
\* Claims about the validator (checked under SpecValidate)
\* ------------------------------------------------------------------------

ValidateEnded == v_pc \in {"returned", "threw"}

SchemaKeyList == [n \in DOMAIN v_schema |-> v_schema[n].key]

\* The issues the schema engines report for the fields from n on, in schema
\* order, each with the field's key as its path.
RECURSIVE ReportedIssues(_)
ReportedIssues(n) ==
  IF n > Len(v_schema) THEN <<>>
  ELSE LET r == StandardValidate(v_schema[n].kind, Get(v_env, v_schema[n].key))
       IN (IF r.tag = "issues"
           THEN [m \in DOMAIN r.issues |->
                   [path |-> v_schema[n].key, message |-> r.issues[m]]]
           ELSE <<>>) \o ReportedIssues(n + 1)

AsyncFields == {n \in DOMAIN v_schema : v_schema[n].kind = "async"}

\* C7 as stated: validate calls the validation of every schema field, and when
\* the fields report at least one issue it throws one EnvValidationError that
\* carries all of them in schema order and returns nothing.
C7_EveryFieldValidated ==
  ValidateEnded =>
    /\ v_calls = SchemaKeyList
    /\ ReportedIssues(1) # <<>> =>
         v_out = [kind |-> "EnvValidationError", value |-> NoMap,
                  issues |-> ReportedIssues(1)]

\* C7 as amended: the same for schemas none of whose fields returns a promise;
\* with such a field the loop ends at the first of them, so that no later key
\* has been validated.
C7_EveryFieldValidatedUnlessAsync ==
  ValidateEnded =>
    /\ AsyncFields = {} =>
         /\ v_calls = SchemaKeyList
         /\ ReportedIssues(1) # <<>> =>
              v_out = [kind |-> "EnvValidationError", value |-> NoMap,
                       issues |-> ReportedIssues(1)]
    /\ AsyncFields # {} =>
         /\ v_calls = SubSeq(SchemaKeyList, 1, MinOf(AsyncFields))
         /\ v_out.kind # "EnvValidationError"

\* C7 witness: the first field failed, the fields after it were validated all
\* the same, and the error carries the issues of two fields.
C7_Witness ==
  /\ v_out.kind = "EnvValidationError"
  /\ Len(v_calls) = 3
  /\ Len(v_out.issues) >= 3
  /\ v_out.issues[1].path = K_V
  /\ v_out.issues[Len(v_out.issues)].path # K_V
  /\ K_W \in DOMAIN v_st.result

\* C8 as stated: with an asynchronous field, validate throws TypeError before
\* the validation of any field has been attempted.
C8_ThrowsBeforeAnyValidation ==
  v_out.kind = "TypeError" => v_calls = <<>>

\* C8 as amended: validate throws TypeError exactly when some field's validate
\* returns a promise, at the first such field in schema order: the fields
\* before it and that field itself have been validated, no later one has, and
\* neither a result nor an EnvValidationError comes out, whatever the earlier
\* fields reported.
C8_ThrowsAtFirstAsyncField ==
  ValidateEnded =>
    /\ v_out.kind = "TypeError" <=> AsyncFields # {}
    /\ AsyncFields # {} =>
         /\ v_out = TypeErrorThrown
         /\ v_calls = SubSeq(SchemaKeyList, 1, MinOf(AsyncFields))

\* C8 witness: the TypeError is thrown at the third field, after an earlier
\* field was validated and had failed.
C8_Witness ==
  /\ v_out.kind = "TypeError"
  /\ Len(v_calls) = 3
  /\ v_st.issues # <<>>
  /\ Len(v_schema) = 3

\* ------------------------------------------------------------------------
\* Claims about resolveAdapters (checked under SpecResolve)
\* ------------------------------------------------------------------------

LoadedKeys == UNION { DOMAIN r_adapters[n].values : n \in DOMAIN r_adapters }

\* The last adapter of the list whose map contains key k.
LastWith(k) ==
  MaxOf({ n \in DOMAIN r_adapters : k \in DOMAIN r_adapters[n].values })

\* C1: when resolveAdapters returns, the keys of its map are the union of the
\* keys of all loaded maps, each key holds the value given by the last adapter
\* of the list whose map contains the key (a key holding undefined counts as
\* contained), and the empty list yields the empty map.
C1_LastAdapterWins ==
  r_pc = "done" =>
    /\ DOMAIN r_result = LoadedKeys
    /\ \A k \in LoadedKeys : r_result[k] = r_adapters[LastWith(k)].values[k]
    /\ r_adapters = <<>> => r_result = EmptyMap

\* C1 witness: three adapters were merged, two of them give V different
\* values, the later of the two gives undefined, and that is what V holds.
C1_Witness ==
  /\ r_pc = "done"
  /\ Len(r_adapters) = MaxAdapters
  /\ \E n, m \in DOMAIN r_adapters :
       /\ n < m
       /\ K_V \in DOMAIN r_adapters[n].values
       /\ K_V \in DOMAIN r_adapters[m].values
       /\ r_adapters[n].values[K_V] # UNDEF
       /\ r_adapters[m].values[K_V] = UNDEF
       /\ LastWith(K_V) = m
  /\ r_result[K_V] = UNDEF
  /\ K_W \in DOMAIN r_result

\* ------------------------------------------------------------------------
\* Claims about the loader (checked under SpecLoad)
\* ------------------------------------------------------------------------

\* The candidate list C4 gives for a mode.
ClaimedNames(mode) ==
  (IF mode # UNDEF /\ mode # <<>>
   THEN << S_env \o << "." >> \o mode \o S_dotLocal >> ELSE <<>>)
  \o (IF mode # S_test /\ mode # S_testing THEN << S_env \o S_dotLocal >> ELSE <<>>)
  \o (IF mode # UNDEF /\ mode # <<>> THEN << S_env \o << "." >> \o mode >> ELSE <<>>)
  \o << S_env >>

\* C4: without an explicit file list, the candidate names are, in this order,
\* .env.<mode>.local (only for a non-empty mode), .env.local (unless the mode
\* is exactly test or testing), .env.<mode> (only for a non-empty mode) and
\* .env (always), the mode being the nodeEnv option and, when that option is
\* not given, the ambient NODE_ENV.
C4_CandidateNames ==
  (l_pc \in {"loop", "done"} /\ l_opts.files = NoList) =>
    l_files = ClaimedNames(IF l_opts.nodeEnv # UNDEF THEN l_opts.nodeEnv
                           ELSE Get(processEnv, K_NODE_ENV))

\* C4 witness: no mode option, the ambient NODE_ENV is test, and the list is
\* .env.test.local, .env.test, .env.
C4_Witness ==
  /\ l_pc = "done"
  /\ l_opts = [nodeEnv |-> UNDEF, files |-> NoList]
  /\ Get(processEnv, K_NODE_ENV) = S_test
  /\ l_files = << S_env \o << "." >> \o S_test \o S_dotLocal,
                  S_env \o << "." >> \o S_test, S_env >>

\* A read of the path succeeds: the file exists and can be read.
ReadSucceeds(path) == path \in DOMAIN fs /\ fs[path] # UNREADABLE

RECURSIVE SuccessfulReads(_, _)
SuccessfulReads(names, n) ==
  IF n > Len(names) THEN <<>>
  ELSE LET path == JoinPath(Directory, names[n])
       IN (IF ReadSucceeds(path)
           THEN << [path |-> path, contents |-> fs[path]] >> ELSE <<>>)
          \o SuccessfulReads(names, n + 1)

\* C5: load() never fails because a candidate is missing or unreadable; what
\* it returns is exactly the candidates whose read succeeded, in the order of
\* the candidate list, and so the empty sequence when none exists.
C5_LoadNeverFails ==
  /\ l_pc # "threw"
  /\ l_pc = "done" => l_results = SuccessfulReads(l_files, 1)

\* C5 witness: on bun, load() returned two files although one candidate
\* exists and cannot be read and another does not exist.
C5_Witness ==
  /\ l_pc = "done"
  /\ runtime = "bun"
  /\ Len(l_results) = 2
  /\ \E n \in DOMAIN l_files :
       /\ JoinPath(Directory, l_files[n]) \in DOMAIN fs
       /\ fs[JoinPath(Directory, l_files[n])] = UNREADABLE
  /\ \E n \in DOMAIN l_files : JoinPath(Directory, l_files[n]) \notin DOMAIN fs

\* ------------------------------------------------------------------------
\* Claims about Env.create (checked under SpecCreate)
\* ------------------------------------------------------------------------

\* create() was called with a directory and without sources, and has handed
\* envValues to the validator.
ValidatedFromDirectory ==
  c_path /\ c_opts.sources = NoSources /\ c_envValues # NoMap

\* The candidate paths of the call, highest priority first.
PriorityPaths ==
  LET names == ClaimedNames(IF c_opts.nodeEnv # UNDEF THEN c_opts.nodeEnv
                            ELSE Get(processEnv, K_NODE_ENV))
  IN [n \in DOMAIN names |-> JoinPath(Directory, names[n])]

\* What parsing the file at `path` on its own gives.
ParsedFrom(path) ==
  Parse(fs[path], [ignoreProcessEnv |-> c_opts.ignoreProcessEnv,
                   envSource |-> c_opts.envSource], processEnv)

\* The positions in PriorityPaths of the existing files that assign key k.
Assigning(k) ==
  { n \in DOMAIN PriorityPaths :
      ReadSucceeds(PriorityPaths[n]) /\ k \in DOMAIN ParsedFrom(PriorityPaths[n]) }

\* C2: with a directory and the environment overlay disabled, the value that
\* reaches validation for each key is the one parsed from the highest-priority
\* existing (readable) file that assigns the key, in the priority
\* .env.<mode>.local > .env.local > .env.<mode> > .env; a key no file assigns
\* does not reach validation.
C2_HighestPriorityFileWins ==
  (ValidatedFromDirectory /\ c_opts.ignoreProcessEnv) =>
    \A k \in (DOMAIN c_envValues) \cup {K_V, K_W} :
      IF Assigning(k) = {} THEN k \notin DOMAIN c_envValues
      ELSE /\ k \in DOMAIN c_envValues
           /\ c_envValues[k] = ParsedFrom(PriorityPaths[MinOf(Assigning(k))])[k]

\* C2 witness: at least three files were loaded, the two of highest priority
\* assign V differently, and W comes from the second one.
C2_Witness ==
  /\ ValidatedFromDirectory /\ c_opts.ignoreProcessEnv
  /\ c_pc = "done"
  /\ Len(l_results) >= 3
  /\ l_results[1].contents = F_b
  /\ l_results[2].contents = F_a
  /\ c_envValues[K_V] = << "b" >>
  /\ c_envValues[K_W] = << "a" >>

\* The environment source of the call.
EnvironmentSource ==
  IF c_opts.envSource # NoMap THEN c_opts.envSource ELSE processEnv

\* C3: with a directory and ignoreProcessEnv not set, every key of the
\* environment source (envSource when supplied, the process environment
\* otherwise) reaches validation with the environment source's value,
\* whatever the .env files assign to it.
C3_EnvironmentWins ==
  (ValidatedFromDirectory /\ ~c_opts.ignoreProcessEnv) =>
    \A k \in DOMAIN EnvironmentSource :
      k \in DOMAIN c_envValues /\ c_envValues[k] = EnvironmentSource[k]

\* C3 witness: a loaded file assigns V and W, the supplied envSource holds
\* another V and an undefined W, and validation saw the envSource's values.
C3_Witness ==
  /\ ValidatedFromDirectory /\ ~c_opts.ignoreProcessEnv
  /\ c_opts.envSource # NoMap
  /\ Len(l_results) >= 1
  /\ l_results[1].contents = F_a
  /\ c_envValues[K_V] = << "e" >>
  /\ c_envValues[K_W] = UNDEF

\* C6: a call with both a directory and a sources list fails with TypeError,
\* and in that execution no adapter's load() and no file read is ever started.
C6_ConflictRejectedBeforeIO ==
  (c_path /\ c_opts.sources # NoSources /\ c_pc # "idle") =>
    /\ c_pc \in {"called", "failed"}
    /\ c_pc = "failed" => c_out = TypeErrorThrown
    /\ r_loads = <<>>
    /\ l_reads = <<>>
    /\ r_pc = "idle" /\ l_pc = "idle"

\* C6 witness: the call failed with TypeError although the sources list holds
\* adapters and the directory holds a file.
C6_Witness ==
  /\ c_pc = "failed"
  /\ c_path
  /\ c_opts.sources # NoSources
  /\ Len(c_opts.sources) = MaxAdapters
  /\ c_out.kind = "TypeError"
  /\ DOMAIN fs # {}
  /\ r_loads = <<>>
  /\ l_reads = <<>>

\* ------------------------------------------------------------------------
\* Claims about single lines (checked under SpecParseLine)
\* ------------------------------------------------------------------------

\* KEY and VALUE of a line KEY=VALUE: the text before and after its first =.
LineKey(line) == Slice(line, 0, IndexOf(line, "="))
LineValue(line) == SliceFrom(line, IndexOf(line, "=") + 1)

\* The document is the single line KEY=VALUE and parse() has returned.
ParsedOneLine ==
  p_pc = "done" /\ Len(p_lines) = 1 /\ Includes(p_lines[1], "=")

\* VALUE cut at its first space followed by #, then trimmed.
ClaimedUnquoted(value) ==
  LET cut == IndexOfSub(value, << " ", "#" >>)
  IN Trim(IF cut = -1 THEN value ELSE Slice(value, 0, cut))

PlainValue(value) ==
  \A n \in DOMAIN value : value[n] \notin { "\"", "'", "$" }

\* C11: for a single line KEY=VALUE with a non-empty key and a VALUE without
\* quote character and without $, parse returns exactly {KEY: v}, v being
\* VALUE cut at its first " #" and trimmed; a # not preceded by a space stays.
C11_UnquotedLine ==
  (ParsedOneLine /\ LineKey(p_lines[1]) # <<>> /\ PlainValue(LineValue(p_lines[1]))) =>
    p_st.result = [k \in { LineKey(p_lines[1]) } |-> ClaimedUnquoted(LineValue(p_lines[1]))]

\* The line about to be processed by the next loop iteration, outside a
\* multi-line value, is KEY=VALUE with VALUE starting with a quote character
\* that occurs again later on the line.
NextLine == Trim(p_lines[p_i + 1])

QuoteClosedOnLine ==
  /\ p_pc = "loop" /\ p_i < Len(p_lines)
  /\ p_st.inQuotes = NoQuote
  /\ NextLine # <<>> /\ NextLine[1] # "#"
  /\ Includes(NextLine, "=")
  /\ LineValue(NextLine) # <<>>
  /\ LineValue(NextLine)[1] \in { "\"", "'" }
  /\ LastIndexOf(LineValue(NextLine), LineValue(NextLine)[1]) > 0

\* The text strictly between the first character of the value and the last
\* occurrence of that character.
Between(value) == SubSeq(value, 2, LastIndexOf(value, value[1]))

\* C12 as stated: when the character right after = is a quote that occurs again
\* later on the line, the value is the text strictly between that first
\* character and the last occurrence of the quote, # kept, the rest discarded.
C12_TextBetweenQuotes ==
  [][ (QuoteClosedOnLine /\ p_i' = p_i + 1) =>
        /\ p_did'.kind \in { "single", "double" }
        /\ p_did'.value = Between(LineValue(NextLine))
    ]_vars

\* C12 as amended: that text is the value when the quote is a single quote;
\* when it is a double quote the value is that text after interpolation (so
\* the text itself when it holds no $).  In both cases a # inside is kept and
\* what follows the last quote is discarded.
C12_TextBetweenQuotesInterpolated ==
  [][ (QuoteClosedOnLine /\ p_i' = p_i + 1) =>
        /\ p_did'.kind = (IF LineValue(NextLine)[1] = "'" THEN "single" ELSE "double")
        /\ p_did'.key = Trim(LineKey(NextLine))
        /\ p_did'.value =
             (IF LineValue(NextLine)[1] = "'" \/ ~Includes(Between(LineValue(NextLine)), "$")
              THEN Between(LineValue(NextLine))
              ELSE Interpolate(Between(LineValue(NextLine)), p_st.result,
                               p_opts, processEnv).out)
        /\ (p_did'.key # S_proto) =>
             /\ p_did'.key \in DOMAIN p_st'.result
             /\ p_st'.result[p_did'.key] = p_did'.value
    ]_vars

\* C12 witness: K="#$A" after A=x was parsed to #x: the # stays, the
\* reference is interpolated.
C12_Witness ==
  /\ p_did.kind = "double"
  /\ p_did.raw = << "\"", "#", "$", "A", "\"" >>
  /\ p_did.value = << "#", "x" >>
  /\ Get(p_st.result, K_K) = << "#", "x" >>

\* ------------------------------------------------------------------------
\* Claims about multi-line values (checked under SpecParseMulti)
\* ------------------------------------------------------------------------

\* The loop is about to process a line.
AtLine == p_pc = "loop" /\ p_i < Len(p_lines)

\* The pending text with the line added after a newline, without its first
\* character (the opening quote) and cut at its last quote character.
ClosedText(pending, line, quote) ==
  LET all == pending \o << "\n" >> \o line
  IN SubSeq(all, 2, LastIndexOf(all, quote))

\* C13: once a line has opened a quoted value that does not close on it, every
\* following line (blank, # and KEY=VALUE lines included) is appended to the
\* pending value after a newline and creates no entry, until the first line
\* that contains the opening quote character; that line closes the value,
\* which goes to the opening key with the quotes stripped (interpolated when
\* the quote is a double quote), and the next line is processed normally.
C13_Continuation ==
  [][ (AtLine /\ p_i' = p_i + 1) =>
        LET line == p_lines[p_i + 1]
            quote == p_st.inQuotes
        IN /\ (quote # NoQuote /\ ~Includes(line, quote)) =>
                /\ p_st'.result = p_st.result
                /\ p_st'.inQuotes = quote
                /\ p_st'.currentKey = p_st.currentKey
                /\ p_st'.currentLine = p_st.currentLine \o << "\n" >> \o line
           /\ (quote # NoQuote /\ Includes(line, quote)) =>
                /\ p_st'.inQuotes = NoQuote
                /\ DOMAIN p_st'.result = DOMAIN p_st.result \cup { p_st.currentKey }
                /\ \A k \in DOMAIN p_st.result \ { p_st.currentKey } :
                     p_st'.result[k] = p_st.result[k]
                /\ p_st'.result[p_st.currentKey] =
                     (IF quote = "'" THEN ClosedText(p_st.currentLine, line, quote)
                      ELSE Interpolate(ClosedText(p_st.currentLine, line, quote),
                                       p_st.result, p_opts, processEnv).out)
           /\ (quote = NoQuote /\ line \in { L_B_sqOpen, L_B_dqOpen }) =>
                /\ p_st'.result = p_st.result
                /\ p_st'.inQuotes = LineValue(line)[1]
                /\ p_st'.currentKey = K_B
                /\ p_st'.currentLine = LineValue(line)
           /\ (quote = NoQuote /\ line = L_A_x) =>
                p_st'.result = [k \in DOMAIN p_st.result \cup { K_A } |->
                                  IF k = K_A THEN << "x" >> ELSE p_st.result[k]]
           /\ (quote = NoQuote /\ line \in { L_blank, L_comment }) =>
                p_st' = p_st
    ]_vars

\* C13 witness: B='${A} was opened, a line A=x was swallowed by it, $E' closed
\* it, and the fourth line A=x was processed normally.
C13_Witness ==
  /\ p_pc = "done"
  /\ p_lines = << L_B_sqOpen, L_A_x, L_sqClose, L_A_x >>
  /\ p_st.result[K_B] = << "$", "{", "A", "}", "\n", "A", "=", "x", "\n", "$", "E" >>
  /\ p_st.result[K_A] = << "x" >>

\* ------------------------------------------------------------------------
\* More claims about single lines (checked under SpecParseLine)
\* ------------------------------------------------------------------------

\* C14: a line whose first = has nothing before it is skipped as malformed: it
\* adds no entry to the result, exactly like a line without any =.
C14_EmptyKeySkipped ==
  (p_pc = "done" /\ Len(p_lines) = 1) =>
    /\ ~Includes(p_lines[1], "=") => p_st.result = EmptyMap
    /\ (Includes(p_lines[1], "=") /\ LineKey(p_lines[1]) = <<>>) =>
         p_st.result = EmptyMap

\* The text the last iteration interpolated: the cut and trimmed value of an
\* unquoted line, the text between the quotes of a double-quoted one.
InterpolatedText ==
  IF p_did.kind = "unquoted" THEN p_did.raw
  ELSE SubSeq(p_did.raw, 2, LastIndexOf(p_did.raw, "\""))

\* The positions of the $ characters of the text that begin a bare $NAME and
\* are not preceded by another $.
BareReferences(text) ==
  { n \in DOMAIN text :
      /\ text[n] = "$"
      /\ n < Len(text) /\ text[n + 1] \in NameStart
      /\ (n = 1 \/ text[n - 1] # "$") }

HasEscaped(text) ==
  \E n \in DOMAIN text :
    /\ n + 2 <= Len(text)
    /\ text[n] = "$" /\ text[n + 1] = "$" /\ text[n + 2] \in NameStart

\* C15: in an unquoted or double-quoted value a bare $NAME whose $ follows
\* another $ is not substituted, whether or not NAME is defined: only the
\* $NAME occurrences not preceded by $ are replaced, and a value whose only
\* references are of the form $$NAME is stored exactly as written.
C15_DoubledDollarStays ==
  (p_did.kind \in { "unquoted", "double" } /\ HasEscaped(InterpolatedText)) =>
    /\ Len(p_did.subs) = Cardinality(BareReferences(InterpolatedText))
    /\ BareReferences(InterpolatedText) = {} => p_did.value = InterpolatedText

\* C15 witness: after A=x, the line K="$$A" gives K the value $$A.
C15_Witness ==
  /\ p_pc = "done"
  /\ Len(p_lines) = 2
  /\ p_did.kind = "double"
  /\ p_did.raw = << "\"", "$", "$", "A", "\"" >>
  /\ p_st.result[K_A] = << "x" >>
  /\ p_st.result[K_K] = << "$", "$", "A" >>
  /\ ~p_opts.ignoreProcessEnv

\* ------------------------------------------------------------------------
\* Claims about fromJSON (checked under SpecJSON)
\* ------------------------------------------------------------------------

\* The JSON type of a document, by the first character of its text.
JSONTypeOf(d) ==
  IF d[1] = "{" THEN T_object
  ELSE IF d[1] = "[" THEN T_array
  ELSE IF d[1] = "\"" THEN T_string
  ELSE IF d[1] = "n" THEN T_null
  ELSE IF d[1] \in { "t", "f" } THEN T_boolean
  ELSE T_number

\* load() has ended on a readable file holding a valid JSON document whose
\* top level is not an object.
LoadedNonObject ==
  /\ j_pc \in { "done", "threw" }
  /\ j_path \in DOMAIN fs
  /\ fs[j_path] \notin { UNREADABLE, D_invalid }
  /\ JSONTypeOf(fs[j_path]) # T_object

EndsWith(s, t) ==
  /\ Len(s) >= Len(t)
  /\ SubSeq(s, Len(s) - Len(t) + 1, Len(s)) = t

\* C16: for every JSON document whose top level is not an object (array, null,
\* number, string, boolean) load() fails with a hard error whose message names
\* the file path and the actual JSON type of the document.
C16_NonObjectRejected ==
  LoadedNonObject =>
    /\ j_pc = "threw"
    /\ j_out.kind = "TypeError"
    /\ IndexOfSub(j_out.message, j_path) # -1
    /\ EndsWith(j_out.message, << ",", " ", "g", "o", "t", " " >> \o JSONTypeOf(fs[j_path]))

\* The same for every document other than null.
C16_ExceptNull ==
  (LoadedNonObject /\ fs[j_path] # D_null) => C16_NonObjectRejected

\* load() ended on a document null.
C16_NullLoaded ==
  LoadedNonObject /\ fs[j_path] = D_null

\* ------------------------------------------------------------------------
\* Claims about fromObject (checked under SpecObject)
\* ------------------------------------------------------------------------

\* What a load() made in heap h would return, as a map.
LoadedFrom(h) ==
  LET r == ObjectLoadResult(h, o_source) IN r.heap[r.ref]

\* C17: load() returns a fresh map holding the entries of the source object:
\* it is neither the source nor a map returned before; a write to a returned
\* map changes neither the source, nor another returned map, nor what a later
\* load() returns; a write to the source changes no map already returned.
C17_FreshMap ==
  [][ /\ o_did'.op = "load" =>
           LET r == o_returned'[o_did'.index]
           IN /\ r # o_source
              /\ r \notin Range(o_returned)
              /\ heap'[r] = heap[o_source]
              /\ \A x \in DOMAIN heap : heap'[x] = heap[x]
      /\ o_did'.op = "writeLoaded" =>
           /\ heap'[o_source] = heap[o_source]
           /\ LoadedFrom(heap') = LoadedFrom(heap)
           /\ \A j \in DOMAIN o_returned \ { o_did'.index } :
                heap'[o_returned[j]] = heap[o_returned[j]]
      /\ o_did'.op = "writeSource" =>
           \A j \in DOMAIN o_returned :
             heap'[o_returned[j]] = heap[o_returned[j]]
    ]_vars

\* Two maps were returned and written to: they differ from the source and from
\* each other.
C17_Witness ==
  /\ o_did.op = "writeLoaded"
  /\ Len(o_returned) = 2
  /\ heap[o_returned[1]] # heap[o_source]
  /\ heap[o_returned[2]] # heap[o_source]
  /\ heap[o_returned[1]] # heap[o_returned[2]]

\* ------------------------------------------------------------------------
\* More claims about resolveAdapters (checked under SpecResolve)
\* ------------------------------------------------------------------------

\* C19: the loads are started one at a time in the order of the list: the load
\* of an adapter is started only when the load of every adapter before it has
\* been started and has completed without failing; a failing load leaves
\* resolveAdapters with the failure, and no load is started after it.
C19_OneLoadAtATime ==
  [][ /\ r_loads' # r_loads =>
           /\ r_loads' = Append(r_loads, Len(r_loads) + 1)
           /\ r_i = Len(r_loads)
           /\ r_pc = "loop"
           /\ \A j \in Range(r_loads) : ~r_adapters[j].fails
      /\ (r_pc = "awaiting" /\ r_adapters[r_i + 1].fails) =>
           /\ r_pc' = "threw"
           /\ r_loads' = r_loads
      /\ r_pc = "threw" => r_loads' = r_loads
    ]_vars

\* The second of three adapters failed: two loads were started.
C19_Witness ==
  /\ r_pc = "threw"
  /\ Len(r_adapters) = 3
  /\ r_loads = << 1, 2 >>

\* ------------------------------------------------------------------------
\* Claims about the Env facade (checked under SpecFacade)
\* ------------------------------------------------------------------------

\* C20: whatever calls of get, has and all were made and whatever was written
\* to the objects all() returned, get(k) returns what the first get(k)
\* returned, and has(k) is true exactly when get(k) is not undefined.
C20_SnapshotFixed ==
  /\ e_did.op = "get" => e_did.value = e_first[e_did.key]
  /\ e_did.op = "has" =>
       /\ e_did.flag = (EnvGetResult(heap[e_values], e_did.key) # UNDEF)
       /\ e_did.key \in DOMAIN e_first => e_did.flag = (e_first[e_did.key] # UNDEF)
  /\ \A k \in DOMAIN e_first : EnvGetResult(heap[e_values], k) = e_first[k]

\* get(k) is called again after two objects returned by all() were given
\* another value for k.
C20_Witness ==
  /\ e_did.op = "get"
  /\ Len(e_alls) = 2
  /\ Get(heap[e_alls[1]], e_did.key) # e_did.value
  /\ Get(heap[e_alls[2]], e_did.key) # e_did.value
  /\ Get(heap[e_alls[1]], e_did.key) # Get(heap[e_alls[2]], e_did.key)

\* ------------------------------------------------------------------------
\* Claims about fromFiles (checked under SpecFiles)
\* ------------------------------------------------------------------------

\* The options of the call, without its sources.
CallOptions == [c_opts EXCEPT !.sources = NoSources]

\* The map create() validates when called with the directory: the files of
\* the directory parsed lowest priority first, then the environment.
PathMap ==
  EnvValuesFromFiles(TRUE,
                     LoaderLoad([nodeEnv |-> c_opts.nodeEnv, files |-> NoList],
                                runtime, fs, processEnv).results,
                     CallOptions, processEnv)

\* The map create() validates when called with the two sources: what
\* resolveAdapters makes of their loads.
SourcesMap ==
  LET sources == FilesSources(CallOptions, runtime, fs, processEnv)
  IN Overlay(Overlay(EmptyMap, sources[1].values), sources[2].values)

\* No candidate name of the call is a file of the directory.
NoCandidateFile ==
  \A name \in Range(GetFileNames([nodeEnv |-> c_opts.nodeEnv, files |-> NoList],
                                 processEnv)) :
    JoinPath(Directory, name) \notin DOMAIN fs

\* C18: a create() called with the directory validates the map the two
\* sources give, a create() called with the two sources validates the map of
\* the directory call, with the same outcome of the validation; the load of
\* fromFiles does not fail, and gives the empty map when the directory holds
\* no candidate file.
C18_FromFilesIsPathA ==
  /\ (c_pc \in { "done", "failed" } /\ c_path) =>
       /\ c_envValues = SourcesMap
       /\ c_out = Validate(c_schema, SourcesMap)
  /\ (c_pc \in { "done", "failed" } /\ ~c_path) =>
       /\ c_envValues = PathMap
       /\ c_out = Validate(c_schema, PathMap)
  /\ (~c_path /\ r_pc = "done") =>
       /\ ~c_opts.sources[1].fails
       /\ NoCandidateFile => r_loads = << 1, 2 >> /\ c_opts.sources[1].values = EmptyMap

\* create() with the two sources has ended; two files with different texts
\* were parsed and the environment source changed the map of the files.
C18_Witness ==
  /\ ~c_path
  /\ c_pc = "done"
  /\ \E p, q \in DOMAIN fs : fs[p] # fs[q]
  /\ c_opts.sources[1].values # EmptyMap
  /\ c_envValues # c_opts.sources[1].values

\* create() with the two sources has ended for a directory without a
\* candidate file.
C18_WitnessEmpty ==
  /\ ~c_path
  /\ c_pc \in { "done", "failed" }
  /\ NoCandidateFile

\* ------------------------------------------------------------------------
\* Claims about the loader with a file list (checked under SpecLoadList)
\* ------------------------------------------------------------------------

\* C21: with an explicit file list the candidate names are the entries of the
\* list, each reduced to its basename, in the order of the list, whatever the
\* mode: no name derived from the mode is added, and .env.local stays in the
\* list when the mode is test or testing.
C21_ListVerbatim ==
  l_pc # "new" =>
    /\ Len(l_files) = Len(l_opts.files)
    /\ \A n \in DOMAIN l_opts.files : l_files[n] = Basename(l_opts.files[n])

\* In mode test the list sub/.env, .env.local was given, both files exist and
\* both were loaded, .env first.
C21_Witness ==
  /\ l_pc = "done"
  /\ ModeOf(l_opts.nodeEnv, processEnv) = S_test
  /\ Len(l_opts.files) = 2
  /\ l_files = << S_env, S_env \o S_dotLocal >>
  /\ Len(l_results) = 2
  /\ l_results[2].path = JoinPath(Directory, S_env \o S_dotLocal)

\* ------------------------------------------------------------------------
\* Claims about whitespace (checked under SpecParseLine)
\* ------------------------------------------------------------------------

\* The line K=VALUE without the spaces at the ends of VALUE.
Unpadded(line) == K_K \o << "=" >> \o Trim(LineValue(line))

\* The document is the single line K=VALUE.
ParsedLineOfK ==
  ParsedOneLine /\ LineKey(p_lines[1]) = K_K

\* C22: spaces after the = and at the end of the line do not change the
\* result: the line K=VALUE parses to the map of the line whose VALUE has no
\* space at either end, for unquoted and quoted values alike.
C22_WhitespaceInsignificant ==
  ParsedLineOfK =>
    p_st.result = Parse(Unpadded(p_lines[1]), p_opts, processEnv)

\* The same for the values that, without the spaces, start with neither a
\* quote nor a #.
C22_ExceptQuoteAndHash ==
  (ParsedLineOfK
     /\ LET v == Trim(LineValue(p_lines[1]))
        IN v = <<>> \/ v[1] \notin { "\"", "'", "#" }) =>
    p_st.result = Parse(Unpadded(p_lines[1]), p_opts, processEnv)

\* ------------------------------------------------------------------------
\* Claims about ignoreProcessEnv in the parser (checked under SpecParse)
\* ------------------------------------------------------------------------

\* Process environments other than the one of the run.
OtherProcessEnvs ==
  { EmptyMap, ParseProcessEnv, [k \in {K_A, K_E} |-> << "q" >>] }

\* An iteration of the loop made with ignoreProcessEnv does the same whatever
\* the process environment and the envSource option are.
SameForEveryEnvironment ==
  [][ (p_pc = "loop" /\ p_i' = p_i + 1 /\ p_opts.ignoreProcessEnv) =>
        \A penv \in OtherProcessEnvs, src \in ParseEnvSources :
          ParseLine(p_st, p_lines[p_i + 1],
                    [ignoreProcessEnv |-> TRUE, envSource |-> src], penv).st = p_st'
    ]_vars

\* C23: with ignoreProcessEnv the result is a function of the contents alone:
\* every iteration leaves the same locals for every process environment and
\* every envSource, and every reference is replaced by the value an earlier
\* line gave the name, by the empty string when there is none.
C23_ContentsAlone ==
  [][ (p_pc = "loop" /\ p_i' = p_i + 1 /\ p_opts.ignoreProcessEnv) =>
        /\ \A penv \in OtherProcessEnvs, src \in ParseEnvSources :
             ParseLine(p_st, p_lines[p_i + 1],
                       [ignoreProcessEnv |-> TRUE, envSource |-> src], penv).st = p_st'
        /\ \A n \in DOMAIN p_did'.subs :
             p_did'.subs[n].text =
               IF p_did'.subs[n].name \in DOMAIN p_st.result
               THEN p_st.result[p_did'.subs[n].name]
               ELSE <<>>
    ]_vars

\* ------------------------------------------------------------------------
\* Claims about concurrent calls (checked under SpecConcurrent)
\* ------------------------------------------------------------------------

\* What resolveAdapters makes of the first n adapters of a list when it runs
\* alone: their objects overlaid from left to right, or a failure (NoMap).
RECURSIVE FoldAlone(_, _)
FoldAlone(adapters, n) ==
  IF n = 0 THEN EmptyMap
  ELSE LET before == FoldAlone(adapters, n - 1)
           source == SharedSources[adapters[n]]
       IN IF before = NoMap \/ source.fails THEN NoMap
          ELSE Overlay(before, SharedMaps[source.ref])

\* What a call returns, or fails with, when it runs alone.
Alone(call) ==
  IF call.kind = "createPath"
  THEN Validate(call.schema,
                EnvValuesFromFiles(TRUE,
                                   LoaderLoad([nodeEnv |-> call.opts.nodeEnv, files |-> NoList],
                                              runtime, fs, processEnv).results,
                                   call.opts, processEnv))
  ELSE LET result == FoldAlone(call.adapters, Len(call.adapters))
       IN IF result = NoMap THEN AdapterErrorThrown
          ELSE IF call.kind = "resolveAdapters" THEN Resolved(result)
          ELSE Validate(call.schema, result)

\* C24: calls interleaved at their await points do not interact: the map a
\* call has accumulated is the one of its own adapters so far, a call that
\* has ended has the outcome it has when it runs alone, and the objects the
\* adapters returned and the process environment are as they were.
C24_CallsIndependent ==
  /\ heap = SharedMaps
  /\ processEnv = SharedMaps[3]
  /\ \A c \in DOMAIN k_calls :
       /\ (k_calls[c].pc \in { "loop", "awaiting" }) =>
            k_calls[c].result = FoldAlone(k_calls[c].adapters, k_calls[c].i)
       /\ (k_calls[c].pc \in { "done", "failed" }) =>
            k_calls[c].out = Alone(k_calls[c])

\* Two calls given the same two adapters in opposite orders have both ended,
\* with different maps.
C24_Witness ==
  /\ Len(k_calls) = 2
  /\ k_calls[1].kind = "resolveAdapters" /\ k_calls[1].adapters = << 1, 2 >>
  /\ k_calls[2].kind = "resolveAdapters" /\ k_calls[2].adapters = << 2, 1 >>
  /\ k_calls[1].pc = "done" /\ k_calls[2].pc = "done"
  /\ k_calls[1].out.value # k_calls[2].out.value

\* ------------------------------------------------------------------------
\* Claims about the passes of interpolation (checked under SpecParseNested)
\* ------------------------------------------------------------------------

\* One pass over the value as written, from position n: a ${NAME} or a $NAME
\* (whose $ does not follow a $) is replaced, the scan goes on after the
\* reference, and what was put in is not scanned.
RECURSIVE SinglePass(_, _, _, _, _)
SinglePass(s, n, parsed, opts, penv) ==
  IF n > Len(s) THEN <<>>
  ELSE
    LET closers == {m \in (n + 2)..Len(s) : s[m] = "}"}
        close == IF closers = {} THEN 0 ELSE MinOf(closers)
        braced == s[n] = "$" /\ n + 1 <= Len(s) /\ s[n + 1] = "{" /\ close > n + 2
        bare == /\ s[n] = "$"
                /\ (n = 1 \/ s[n - 1] # "$")
                /\ n + 1 <= Len(s)
                /\ s[n + 1] \in NameStart
        stops == {m \in (n + 1)..Len(s) : s[m] \notin WordChar}
        last == IF stops = {} THEN Len(s) ELSE MinOf(stops) - 1
    IN IF braced
       THEN Replacer(SubSeq(s, n + 2, close - 1), parsed, opts, penv)
              \o SinglePass(s, close + 1, parsed, opts, penv)
       ELSE IF bare
       THEN Replacer(SubSeq(s, n + 1, last), parsed, opts, penv)
              \o SinglePass(s, last + 1, parsed, opts, penv)
       ELSE << s[n] >> \o SinglePass(s, n + 1, parsed, opts, penv)

\* The text the iteration interpolated: the unquoted value, or what stands
\* between the double quotes.
WrittenValue(did) ==
  IF did.kind = "unquoted" THEN did.raw ELSE ExtractQuotedValue(did.raw, "\"")

\* C25: the value assigned by a line with an unquoted or double-quoted value
\* is the single pass over the value as written: a substituted text holding
\* $OTHER or ${OTHER} is in the result as it is.
C25_SinglePass ==
  [][ (p_pc = "loop" /\ p_i' = p_i + 1 /\ p_did'.kind \in { "unquoted", "double" }) =>
        p_did'.value = SinglePass(WrittenValue(p_did'), 1, p_st.result, p_opts, processEnv)
    ]_vars

\* The same for the lines where no text put in place of a ${NAME} holds a $.
C25_ExceptDollarFromBraces ==
  [][ (/\ p_pc = "loop" /\ p_i' = p_i + 1 /\ p_did'.kind \in { "unquoted", "double" }
       /\ \A n \in DOMAIN ReplaceBraced(WrittenValue(p_did'), 1, p_st.result,
                                       p_opts, processEnv).subs :
            ~Includes(ReplaceBraced(WrittenValue(p_did'), 1, p_st.result,
                                    p_opts, processEnv).subs[n].text, "$")) =>
        p_did'.value = SinglePass(WrittenValue(p_did'), 1, p_st.result, p_opts, processEnv)
    ]_vars

\* ------------------------------------------------------------------------
\* Claims about references across files (checked under SpecCross)
\* ------------------------------------------------------------------------

\* A candidate file of the call holds `text`.
CandidateHolds(text) ==
  \E n \in DOMAIN PriorityPaths :
    PriorityPaths[n] \in DOMAIN fs /\ fs[PriorityPaths[n]] = text

\* C26: every file is interpolated on its own: when a candidate file is W=$V,
\* V being assigned by other candidate files only, the W that reaches
\* validation is the V of the environment source, or the empty string when
\* there is none or ignoreProcessEnv is set, whichever files assign V;
\* with the directory given to create() and with fromFiles alike.
C26_FilesInterpolatedAlone ==
  (c_pc \in { "done", "failed" } /\ CandidateHolds(F_ref)) =>
    /\ K_W \in DOMAIN c_envValues
    /\ c_envValues[K_W] = ClaimedSubstitution(K_V, EmptyMap, CallOptions, processEnv)

\* create() with the directory ended; .env.local is W=$V, .env is V=b; V
\* reached validation as b and W as the empty string.
C26_Witness ==
  /\ c_path /\ c_pc = "done"
  /\ c_opts.ignoreProcessEnv
  /\ JoinPath(Directory, S_env) \in DOMAIN fs
  /\ fs[JoinPath(Directory, S_env)] = F_b
  /\ JoinPath(Directory, S_env \o S_dotLocal) \in DOMAIN fs
  /\ fs[JoinPath(Directory, S_env \o S_dotLocal)] = F_ref
  /\ c_envValues[K_V] = << "b" >>
  /\ c_envValues[K_W] = <<>>

\* The same with the sources fromFiles and fromObject.
C26_WitnessSources ==
  /\ ~c_path /\ c_pc = "done"
  /\ c_opts.ignoreProcessEnv
  /\ CandidateHolds(F_ref) /\ CandidateHolds(F_b)
  /\ c_envValues[K_V] = << "b" >>
  /\ c_envValues[K_W] = <<>>

\* ------------------------------------------------------------------------
\* Claims about a quoted value that is never closed (checked under
\* SpecParseMulti)
\* ------------------------------------------------------------------------

\* No line from position n on holds the character `quote`.
NeverClosedFrom(n, quote) ==
  \A m \in n..Len(p_lines) : \A x \in DOMAIN p_lines[m] : p_lines[m][x] # quote

\* C27: when a line opens a quoted value and no later line holds its quote
\* character, the opening line and every line after it leave the result as it
\* was (the opening key gets no entry and keeps the value an earlier line gave
\* it, no later line makes an entry), and parse returns that result.
C27_UnclosedQuote ==
  [][ /\ (AtLine /\ p_i' = p_i + 1 /\ p_did'.kind = "open"
          /\ NeverClosedFrom(p_i + 2, p_st'.inQuotes)) =>
            p_st'.result = p_st.result
      /\ (AtLine /\ p_i' = p_i + 1 /\ p_st.inQuotes # NoQuote
          /\ NeverClosedFrom(p_i + 1, p_st.inQuotes)) =>
            /\ p_st'.result = p_st.result
            /\ p_st'.inQuotes = p_st.inQuotes
      /\ (p_pc = "loop" /\ p_i = Len(p_lines) /\ p_st.inQuotes # NoQuote) =>
            /\ p_pc' = "done"
            /\ p_st'.result = p_st.result
    ]_vars

\* parse returned with a value still open: B was assigned by the first two
\* lines, opened again by the third, and the fourth line A=x made no entry.
C27_Witness ==
  /\ p_pc = "done"
  /\ p_st.inQuotes # NoQuote
  /\ Len(p_lines) = 4
  /\ p_lines[3] = L_B_sqOpen
  /\ p_lines[4] = L_A_x
  /\ DOMAIN p_st.result = { K_B }
  /\ p_st.currentKey = K_B

\* ------------------------------------------------------------------------
\* Claims about Env.create with sources (checked under SpecSources)
\* ------------------------------------------------------------------------

\* The maps of the first n adapters of the list, each laid over the ones
\* before it.
RECURSIVE FoldSources(_, _)
FoldSources(sources, n) ==
  IF n = 0 THEN EmptyMap
  ELSE LET before == FoldSources(sources, n - 1)
           values == sources[n].values
       IN [k \in DOMAIN before \cup DOMAIN values |->
             IF k \in DOMAIN values THEN values[k] ELSE before[k]]

\* create() was given sources and reached the validation.
ValidatedFromSources ==
  /\ c_pc \in { "done", "failed" }
  /\ c_opts.sources # NoSources
  /\ c_out # AdapterErrorThrown

\* C28: with a sources list, the empty one included, the map passed to
\* validation is the fold of the adapters' maps from left to right, whatever
\* the process environment and the options ignoreProcessEnv, envSource and
\* nodeEnv are: nothing else is overlaid.
C28_SourcesAlone ==
  ValidatedFromSources =>
    /\ c_envValues = FoldSources(c_opts.sources, Len(c_opts.sources))
    /\ c_out = Validate(c_schema, FoldSources(c_opts.sources, Len(c_opts.sources)))

\* Two adapters were folded while the process environment and envSource hold
\* another V and ignoreProcessEnv is not set: V is the second adapter's.
C28_Witness ==
  /\ ValidatedFromSources
  /\ ~c_opts.ignoreProcessEnv
  /\ c_opts.envSource # NoMap
  /\ c_opts.nodeEnv = S_test
  /\ Len(c_opts.sources) = 2
  /\ c_opts.sources[2].values[K_V] = << "2" >>
  /\ c_envValues[K_V] = << "2" >>
  /\ processEnv[K_V] = << "p" >>

\* The empty list of sources: the empty map was validated.
C28_WitnessEmpty ==
  /\ ValidatedFromSources
  /\ c_opts.sources = <<>>
  /\ c_envValues = EmptyMap
  /\ ~c_opts.ignoreProcessEnv

\* ------------------------------------------------------------------------
\* Claims about ignoreProcessEnv in Env.create (checked under SpecCreate)
\* ------------------------------------------------------------------------

\* The map create() validates for the directory and the options of the call
\* when the process environment is penv.
ValidatedUnder(penv) ==
  EnvValuesFromFiles(TRUE,
                     LoaderLoad([nodeEnv |-> c_opts.nodeEnv, files |-> NoList],
                                runtime, fs, penv).results,
                     c_opts, penv)

\* C29: with ignoreProcessEnv the map passed to validation is the same for
\* every process environment, the ones with another NODE_ENV included.
C29_AmbientIgnored ==
  (ValidatedFromDirectory /\ c_opts.ignoreProcessEnv) =>
    \A penv \in CreateProcessEnvs \cup { EmptyMap } : c_envValues = ValidatedUnder(penv)

\* The same for the calls that give the nodeEnv option.
C29_WithNodeEnvOption ==
  (ValidatedFromDirectory /\ c_opts.ignoreProcessEnv /\ c_opts.nodeEnv # UNDEF) =>
    \A penv \in CreateProcessEnvs \cup { EmptyMap } : c_envValues = ValidatedUnder(penv)

\* ------------------------------------------------------------------------
\* Claims about the keys of the validated map (checked under SpecValidate)
\* ------------------------------------------------------------------------

SchemaKeySet == { v_schema[n].key : n \in DOMAIN v_schema }

\* C30: whenever validate returns normally the keys of the result are the
\* keys of the schema: every field is present, possibly with the value
\* undefined, and no other key of the input map is.
C30_ResultKeysAreSchemaKeys ==
  v_out.kind = "returned" => DOMAIN v_out.value = SchemaKeySet

\* The same for the schemas without a field whose validate returns an empty
\* list of issues.
C30_ExceptEmptyIssues ==
  (v_out.kind = "returned"
     /\ \A n \in DOMAIN v_schema : v_schema[n].kind # "noIssues") =>
    DOMAIN v_out.value = SchemaKeySet

====
